---- MODULE Spec2Model ----
(***************************************************************************)
(* smalltsdb: the incoming table, the rollup tables and the sync engine of *)
(* TablesTSDB (src/smalltsdb/tsdb.py), with the interval algebra.          *)
(*                                                                         *)
(* Timestamps, values and the clock are integers (seconds).  A rollup row  *)
(* carries the columns n, min, max and sum; avg and the quantiles are      *)
(* functions of the same group of incoming rows and are not carried.       *)
(* A rollup row also carries `ids`, the identities of the incoming rows it *)
(* was computed from: a history field, like the variables marked history.  *)
(* sync is one step: the passes of the periods and the delete run with no  *)
(* insert of another connection between their transactions.                *)
(*                                                                         *)
(* The daemon (src/smalltsdb/daemon.py): the queue, the listeners, the     *)
(* timer, the signal handler of main and the consumer loop of run_daemon   *)
(* with its buffer.  A sample of the daemon is <<path, timestamp, value,   *)
(* src>>; src is history, <<payload number, line number>> of the line the  *)
(* sample was parsed from, <<0, 0>> for a sample the daemon made itself.   *)
(***************************************************************************)
EXTENDS Integers, Sequences, FiniteSets, TLC

VARIABLES
    incoming,       \* the incoming table: a set of rows [id, path, timestamp, value]
    agg,            \* the rollup tables: period name -> set of rows
    nextId,         \* history: identity given to the next inserted incoming row
    inserts,        \* number of insert calls so far (bounded by MaxInserts)
    clock,          \* the value _now() returned to the last sync (0 before the first)
    lastOp,         \* history: the last operation of the store, "none" before the first
    startIncoming,  \* history: incoming when the last sync began
    startAgg,       \* history: the rollup tables when the last sync began
    dirty,          \* history: an insert happened since the last sync began
    repeat,         \* history: the last sync ran at the now of the sync before it, with no insert in between
    due,            \* history: <<id, period name>>: a pass of the period saw the row when its bucket was final and unwritten
    seen,           \* history: <<id, period name>>: a pass of the period saw the row at now >= timestamp + tail
    ivArgs,         \* arguments of the last intervals() call of SpecIntervals (None before the first)
    ivRes,          \* the result of that call
    failed,         \* history: index in PERIODS of the pass that raised in the last sync, 0 if none
    queue,          \* daemon: the queue.Queue, a sequence of items, head first
    buffer,         \* daemon: the list `tuples` of run_daemon
    pc,             \* daemon: "idle", "running" (in the loop), "exited" (left the loop), "returned"
    serving,        \* daemon: the socket servers are serving
    timing,         \* daemon: the timer thread is running
    doneSent,       \* daemon: the signal handler has put DONE
    self_metric_prefix, \* daemon: the argument of run_daemon, None or Some(prefix)
    nrecv,          \* history: number of payloads the listeners have handled
    ticks,          \* history: number of TIME items the timer has put
    consumed,       \* history: number of items the consumer has taken from the queue
    calls,          \* history: the calls of tsdb.insert by the daemon: [arg, ok, first]
    actor,          \* history: the thread of the last daemon step
    lastRecv,       \* history: the last payload a listener handled: [pid, lines] (None before)
    beforeDone,     \* history: the srcs of the samples enqueued before DONE was put
    tcpOpen,        \* daemon: the TCP server is in the handler of a connection the client has not closed
    _db,            \* BaseTSDB._db: None, or Some(n) for the n-th connection opened
    conns,          \* history: number of connections _open_db has opened
    fnArgs,         \* arguments of the last call of parse_line or get_metric (None before the first)
    fnRes,          \* what that call returned
    raised,         \* the exception the last call of a store method raised, "" if it returned
    two,            \* the database of a TwoDatabasesTSDB: [main, aux], schema -> table name -> rows
    lock,           \* cli: the process that holds the lock on the lock file, None if free
    cli,            \* cli: the `sync` invocations, process -> [pc, lock_file, called, exit]
    tm,             \* a Timing or Timer object: [kind, callbacks, _timings, prefixes, stack, ...]
    view            \* the incoming table of a ViewTSDB

daemonVars == <<queue, buffer, pc, serving, timing, doneSent, self_metric_prefix,
                nrecv, ticks, consumed, calls, actor, lastRecv, beforeDone, tcpOpen>>

\* variables the operations of the first specifications leave alone
extVars == <<fnArgs, fnRes, raised>>

\* the second store and the command line, which the operations of one TablesTSDB leave alone
scopeVars == <<tm, view>>

otherVars == <<two, lock, cli, scopeVars>>

vars == <<incoming, agg, nextId, inserts, clock, lastOp,
          startIncoming, startAgg, dirty, repeat, due, seen, ivArgs, ivRes,
          failed, daemonVars, _db, conns, extVars, otherVars>>

----------------------------------------------------------------------------
(* Program constants *)

None == << >>
Some(v) == <<v>>

PERIODS ==
    << [name |-> "onesecond",  seconds |-> 1],
       [name |-> "tensecond",  seconds |-> 10],
       [name |-> "oneminute",  seconds |-> 60],
       [name |-> "fiveminute", seconds |-> 300],
       [name |-> "onehour",    seconds |-> 3600],
       [name |-> "oneday",     seconds |-> 86400] >>

PeriodNames == {PERIODS[i].name : i \in DOMAIN PERIODS}

\* PERIODS[name]
SecondsOf(name) == PERIODS[CHOOSE i \in DOMAIN PERIODS : PERIODS[i].name = name].seconds

_tail == 60

----------------------------------------------------------------------------
(* Bounds and input sets *)

MaxInserts == 3

\* batches of (path, timestamp, value) tuples given to insert()
Batches ==
    { << <<"one", 1, 1>>, <<"two", 5, 2>> >>,
      << <<"one", 2, 5>>, <<"one", 12, 1>> >>,
      << <<"one", 10, 1>> >>,
      << <<"one", 15, 5>> >>,
      << <<"two", -5, 2>> >> }

\* values _now() returns
Nows == {69, 70, 79, 80, 90, 86470}

\* the invocations of `smalltsdb sync` of a behaviour
MaxProcs == 2

Procs == 1..MaxProcs

----------------------------------------------------------------------------
(* Helpers *)

MaxOf(S) == CHOOSE x \in S : \A y \in S : y <= x
MinOf(S) == CHOOSE x \in S : \A y \in S : x <= y

RECURSIVE SumValues(_)
SumValues(rows) ==
    IF rows = {} THEN 0
    ELSE LET r == CHOOSE x \in rows : TRUE
         IN  r.value + SumValues(rows \ {r})

\* SQLite integer division truncates toward zero
TruncDiv(a, b) == IF a >= 0 THEN a \div b ELSE -((-a) \div b)

\* a variant that groups by the timestamp itself
agg_tsNoDivision(timestamp, seconds) == timestamp

\* cast(timestamp as integer) / seconds * seconds
agg_ts(timestamp, seconds) == TruncDiv(timestamp, seconds) * seconds

\* floor(timestamp / seconds) * seconds: the bucket of the data model
Bucket(timestamp, seconds) == (timestamp \div seconds) * seconds

----------------------------------------------------------------------------
(* intervals(period, tail, now, last_final) *)

\* a variant that starts the final interval at the last final datapoint
intervalsRecomputeLast(period, tail, now, last_final) ==
    LET lf          == IF last_final = None THEN -period ELSE last_final[1]
        final_start == lf
        final_end   == ((now - tail) \div period) * period
    IN  << <<final_start, final_end>>, <<final_end, ((now \div period) + 1) * period>> >>

\* a variant that ignores the tail
intervalsNoTail(period, tail, now, last_final) ==
    LET lf          == IF last_final = None THEN -period ELSE last_final[1]
        final_start == lf + period
        final_end   == (now \div period) * period
    IN  << <<final_start, final_end>>, <<final_end, ((now \div period) + 1) * period>> >>

intervals(period, tail, now, last_final) ==
    LET lf            == IF last_final = None THEN -period ELSE last_final[1]
        final_start   == lf + period
        final_end     == ((now - tail) \div period) * period
        partial_start == final_end
        partial_end   == ((now \div period) + 1) * period
    IN  << <<final_start, final_end>>, <<partial_start, partial_end>> >>

----------------------------------------------------------------------------
(* Queries of _sync *)

\* select distinct path from incoming
paths == {r.path : r \in incoming}

\* a variant that never finds a last final datapoint
last_finalNone(name, path) == None

\* max(<name>.timestamp) of the left join, NULL when the path has no row
last_final(name, path) ==
    LET ts == {row.timestamp : row \in {x \in agg[name] : x.path = path}}
    IN  IF ts = {} THEN None ELSE Some(MaxOf(ts))

\* variants of the where clause: start excluded; end excluded
selectedAfterStart(path, start, end) ==
    {r \in incoming : r.path = path /\ start < r.timestamp /\ r.timestamp <= end}

selectedHalfOpen(path, start, end) ==
    {r \in incoming : r.path = path /\ start <= r.timestamp /\ r.timestamp < end}

\* where path = :path and timestamp between :start and :end
selected(path, start, end) ==
    {r \in incoming : r.path = path /\ start <= r.timestamp /\ r.timestamp <= end}

\* the select ... group by path, agg_ts of the sync query, for one path
sync_query(seconds, path, start, end) ==
    LET sel == selected(path, start, end)
        group(b) == {r \in sel : agg_ts(r.timestamp, seconds) = b}
    IN  { [ path      |-> path,
            timestamp |-> b,
            n         |-> Cardinality(group(b)),
            min       |-> MinOf({r.value : r \in group(b)}),
            max       |-> MaxOf({r.value : r \in group(b)}),
            sum       |-> SumValues(group(b)),
            ids       |-> {r.id : r \in group(b)} ]
          : b \in {agg_ts(r.timestamp, seconds) : r \in sel} }

\* insert or replace on the primary key (path, timestamp)
insert_or_replace(table, rows) ==
    {t \in table : ~ \E r \in rows : r.path = t.path /\ r.timestamp = t.timestamp}
        \cup rows

\* the final interval _sync computes for a path in the pass of a period
final(name, path, now) ==
    intervals(SecondsOf(name), _tail, now, last_final(name, path))[1]

\* all rows the pass of period `name` writes at `now`
pass_rows(name, now) ==
    UNION { sync_query(SecondsOf(name), p, final(name, p, now)[1], final(name, p, now)[2])
            : p \in paths }

\* a variant that ignores the tail
delete_endNoTail(now) == now - MaxOf({PERIODS[i].seconds : i \in DOMAIN PERIODS})

delete_end(now) == now - _tail - MaxOf({PERIODS[i].seconds : i \in DOMAIN PERIODS})

----------------------------------------------------------------------------
(* Timing (src/smalltsdb/timing.py) and Timer (src/smalltsdb/timer.py): an *)
(* object is [kind, callbacks, _timings, prefixes, stack, yielded, ...].   *)
(* `stack` holds the frames of the scopes that are open, the innermost     *)
(* last: the locals of the generator of __call__.  `yielded` is the list   *)
(* object the scopes yield, which the caller keeps after _timings is reset.*)
(* A callback is the name of its clock; every clock reads `at`.  The       *)
(* fields sid, parent, base and exc are history.                           *)

\* Timing(callbacks)
Timing(callbacks) ==
    [ kind |-> "Timing", callbacks |-> callbacks, _timings |-> None, prefixes |-> << >>,
      stack |-> << >>, yielded |-> << >>, sid |-> 0, parent |-> << >>, tick |-> 0, exc |-> FALSE ]

\* Timer(callbacks, prefix)
Timer(callbacks, prefix) ==
    [ kind |-> "Timer", callbacks |-> callbacks, _timings |-> None,
      prefixes |-> IF prefix = None THEN << >> ELSE <<prefix[1]>>,
      stack |-> << >>, yielded |-> << >>, sid |-> 0, parent |-> << >>, tick |-> 0, exc |-> FALSE ]

\* self.separator.join(parts)
RECURSIVE join(_)
join(parts) ==
    IF Len(parts) = 1 THEN parts[1] ELSE parts[1] \o "." \o join(SubSeq(parts, 2, Len(parts)))

Front(seq) == SubSeq(seq, 1, Len(seq) - 1)

RECURSIVE Reverse(_)
Reverse(seq) == IF seq = << >> THEN << >> ELSE Append(Reverse(SubSeq(seq, 2, Len(seq))), seq[1])

\* __call__ up to the yield: Timing takes a name, Timer a name or a prefix and a name
scope_enter(t, name_or_prefix, maybe_name, at) ==
    LET pushes   == t.kind = "Timer" /\ maybe_name # None
        name     == IF maybe_name = None THEN name_or_prefix ELSE maybe_name[1]
        prefixes == IF pushes THEN Append(t.prefixes, name_or_prefix) ELSE t.prefixes
        first    == t._timings = None
        frame    == [ name      |-> IF t.kind = "Timer" THEN join(Append(prefixes, name)) ELSE name,
                      first     |-> first,
                      start_utc |-> at,
                      starts    |-> at,
                      pushed    |-> pushes,
                      sid       |-> t.sid + 1,
                      base      |-> t.prefixes ]
    IN  [t EXCEPT !.prefixes = prefixes,
                  !._timings = IF first THEN Some(<< >>) ELSE @,
                  !.yielded  = IF first THEN << >> ELSE @,
                  !.stack    = Append(@, frame),
                  !.sid      = @ + 1,
                  !.parent   = Append(@, IF t.stack = << >> THEN 0 ELSE t.stack[Len(t.stack)].sid)]

\* the order of `times`: Timing reads the clocks in the order of callbacks, Timer in reverse
ends(t) == IF t.kind = "Timer" THEN Reverse(t.callbacks) ELSE t.callbacks

\* a variant that leaves the accumulator in place when the outermost scope exits
resetNever(first, timings) == Some(timings)

\* if first: self._timings = None
reset(first, timings) == IF first THEN None ELSE Some(timings)

\* the finally block of __call__, run when the body returns and when it raises
scope_exit(t, at) ==
    LET frame   == t.stack[Len(t.stack)]
        clocks  == ends(t)
        appended == t._timings[1] \o
                      [ i \in DOMAIN clocks |->
                          [ name     |-> frame.name \o "." \o clocks[i],
                            start    |-> frame.start_utc,
                            duration |-> at - frame.starts,
                            sid      |-> frame.sid ] ]
    IN  [t EXCEPT !._timings = reset(frame.first, appended),
                  !.yielded  = appended,
                  !.prefixes = IF frame.pushed THEN Front(@) ELSE @,
                  !.stack    = Front(@)]

----------------------------------------------------------------------------
(* Initial state: a new database, no sync yet *)

Init ==
    /\ incoming = {}
    /\ agg = [name \in PeriodNames |-> {}]
    /\ nextId = 1
    /\ inserts = 0
    /\ clock = 0
    /\ lastOp = "none"
    /\ startIncoming = {}
    /\ startAgg = [name \in PeriodNames |-> {}]
    /\ dirty = FALSE
    /\ repeat = FALSE
    /\ due = {}
    /\ seen = {}
    /\ ivArgs = None
    /\ ivRes = None
    /\ failed = 0
    /\ queue = << >>
    /\ buffer = << >>
    /\ pc = "idle"
    /\ serving = FALSE
    /\ timing = FALSE
    /\ doneSent = FALSE
    /\ self_metric_prefix = None
    /\ nrecv = 0
    /\ ticks = 0
    /\ consumed = 0
    /\ calls = << >>
    /\ actor = "none"
    /\ lastRecv = None
    /\ beforeDone = {}
    /\ tcpOpen = FALSE
    /\ _db = None
    /\ conns = 0
    /\ fnArgs = None
    /\ fnRes = None
    /\ raised = ""
    /\ two = [main |-> [name \in PeriodNames |-> {}], aux |-> [incoming |-> {}]]
    /\ lock = None
    /\ cli = [p \in Procs |-> [pc |-> "new", lock_file |-> FALSE, called |-> FALSE, exit |-> None]]
    /\ tm = Timing(<< >>)
    /\ view = {}

----------------------------------------------------------------------------
(* BaseTSDB.insert(tuples): one transaction *)

\* a variant that never opens a connection
use_dbNoOpen == UNCHANGED <<_db, conns>>

\* the property BaseTSDB.db: the connection, opened by _open_db if there is none
use_db ==
    IF _db = None
    THEN _db' = Some(conns + 1) /\ conns' = conns + 1
    ELSE UNCHANGED <<_db, conns>>

insert_db(tuples) ==
    /\ use_db
    /\ raised' = ""
    /\ UNCHANGED <<fnArgs, fnRes>>
    /\ incoming' = incoming \cup
            { [ id        |-> nextId + i - 1,
                path      |-> tuples[i][1],
                timestamp |-> tuples[i][2],
                value     |-> tuples[i][3] ] : i \in DOMAIN tuples }
    /\ nextId' = nextId + Len(tuples)
    /\ inserts' = inserts + 1
    /\ lastOp' = "insert"
    /\ dirty' = TRUE
    /\ UNCHANGED <<agg, clock, startIncoming, startAgg, repeat, due, seen, ivArgs, ivRes, failed>>

\* an insert by a client of the library
insert(tuples) ==
    /\ inserts < MaxInserts
    /\ insert_db(tuples)
    /\ UNCHANGED daemonVars
    /\ UNCHANGED otherVars

\* history: the rows whose bucket is final at `now` and after every row of their path
due_rows(name, now) ==
    { x \in incoming :
        /\ x.timestamp >= 0
        /\ Bucket(x.timestamp, SecondsOf(name)) + SecondsOf(name) + _tail <= now
        /\ \A row \in agg[name] :
              row.path = x.path => row.timestamp < Bucket(x.timestamp, SecondsOf(name)) }

\* history: the rows with timestamp <= now - tail
seen_rows(now) == {x \in incoming : x.timestamp + _tail <= now}

(* TablesTSDB.sync: _sync with now = self._now(): the passes of the periods, *)
(* each reading incoming and its own table, then the delete from incoming;   *)
(* no self_metric_prefix, so the insert of the timings writes nothing.       *)
sync_db(now) ==
    /\ now >= clock
    /\ clock' = now
    /\ agg' = [name \in PeriodNames |-> insert_or_replace(agg[name], pass_rows(name, now))]
    /\ incoming' = {r \in incoming : ~(r.timestamp < delete_end(now))}
    /\ lastOp' = "sync"
    /\ startIncoming' = incoming
    /\ startAgg' = agg
    /\ repeat' = (lastOp # "none" /\ now = clock /\ ~dirty)
    /\ dirty' = FALSE
    /\ due' = due \cup UNION { {<<r.id, name>> : r \in due_rows(name, now)} : name \in PeriodNames }
    /\ seen' = seen \cup UNION { {<<r.id, name>> : r \in seen_rows(now)} : name \in PeriodNames }
    /\ failed' = 0
    /\ use_db
    /\ raised' = ""
    /\ UNCHANGED <<nextId, inserts, ivArgs, ivRes, fnArgs, fnRes>>

\* a sync by a client of the library
sync(now) ==
    /\ sync_db(now)
    /\ UNCHANGED daemonVars
    /\ UNCHANGED otherVars

Next ==
    \/ \E tuples \in Batches : insert(tuples)
    \/ \E now \in Nows : sync(now)

Spec == Init /\ [][Next]_vars

----------------------------------------------------------------------------
(* intervals() on its own: the calls of test_intervals and their neighbours *)

IntervalsArgs ==
    { <<period, tail, now, lf>> :
        period \in {1, 10, 60, 300},
        tail \in {0, 30, 60},
        now \in {-61, -1, 0, 29, 102, 109, 110, 119, 120, 149, 150, 1499, 1500, 1559, 1560},
        lf \in {None, Some(0), Some(30), Some(50), Some(60), Some(900)} }

intervals_call(args) ==
    /\ IF args[4] = None THEN TRUE ELSE args[4][1] % args[1] = 0
    /\ ivArgs' = args
    /\ ivRes' = intervals(args[1], args[2], args[3], args[4])
    /\ UNCHANGED <<incoming, agg, nextId, inserts, clock, lastOp,
                   startIncoming, startAgg, dirty, repeat, due, seen, failed, _db, conns>>
    /\ UNCHANGED daemonVars
    /\ UNCHANGED extVars
    /\ UNCHANGED otherVars

NextIntervals == \E args \in IntervalsArgs : intervals_call(args)

SpecIntervals == Init /\ [][NextIntervals]_vars

----------------------------------------------------------------------------
(* A storage failure during sync: the db.execute of a pass raises.  The    *)
(* pass runs in `with self.db as db`, which rolls its transaction back and *)
(* lets the exception through; _sync has no try, so the exception leaves   *)
(* the loop over PERIODS and the delete is not reached.                    *)

FailBatches ==
    { << <<"one", 1, 1>>, <<"two", 5, 2>> >>,
      << <<"one", 12, 1>> >> }

FailNows == {86470}

\* the inserts of a behaviour of SpecSyncFail
MaxFailInserts == 2

PeriodIndex(name) == CHOOSE i \in DOMAIN PERIODS : PERIODS[i].name = name

\* a variant that commits what the pass wrote before the exception
rollbackKeepsWrites(table, written) == insert_or_replace(table, written)

\* a variant that commits the rows inserted before the exception
rollbackAppends(table, written) == table \cup written

\* the table after `with self.db` is left by an exception: the rows written in the block are undone
rollback(table, written) == table

\* sync at `now`; the pass of PERIODS[k] raises after the sync_query of the paths in `done`
sync_fail(now, k, done) ==
    /\ now >= clock
    /\ clock' = now
    /\ agg' = [name \in PeriodNames |->
                 IF PeriodIndex(name) < k
                 THEN insert_or_replace(agg[name], pass_rows(name, now))
                 ELSE IF PeriodIndex(name) = k
                 THEN rollback(agg[name],
                        UNION { sync_query(SecondsOf(name), p,
                                           final(name, p, now)[1], final(name, p, now)[2])
                                : p \in done })
                 ELSE agg[name]]
    /\ failed' = k
    /\ lastOp' = "sync_failed"
    /\ startIncoming' = incoming
    /\ startAgg' = agg
    /\ repeat' = FALSE
    /\ dirty' = TRUE
    /\ due' = due \cup UNION { {<<r.id, name>> : r \in due_rows(name, now)}
                               : name \in {x \in PeriodNames : PeriodIndex(x) < k} }
    /\ seen' = seen \cup UNION { {<<r.id, name>> : r \in seen_rows(now)}
                                 : name \in {x \in PeriodNames : PeriodIndex(x) < k} }
    /\ use_db
    /\ raised' = "Error"
    /\ UNCHANGED <<incoming, nextId, inserts, ivArgs, ivRes, fnArgs, fnRes>>
    /\ UNCHANGED daemonVars
    /\ UNCHANGED otherVars

NextSyncFail ==
    \/ \E tuples \in FailBatches : inserts < MaxFailInserts /\ insert(tuples)
    \/ \E now \in FailNows : sync(now)
    \/ \E now \in FailNows, k \in DOMAIN PERIODS, done \in SUBSET paths : sync_fail(now, k, done)

SpecSyncFail == Init /\ [][NextSyncFail]_vars

----------------------------------------------------------------------------
(* The daemon: src/smalltsdb/daemon.py *)

tsdbVars == <<incoming, agg, nextId, inserts, clock, lastOp, startIncoming, startAgg,
              dirty, repeat, due, seen, ivArgs, ivRes, failed, _db, conns, extVars>>

MaxPayloads == 2
MaxTicks == 2

\* the items of the queue: a list of tuples, TIME or DONE
DONE == [kind |-> "DONE", tuples |-> << >>]
TIME == [kind |-> "TIME", tuples |-> << >>]
batch(tuples) == [kind |-> "batch", tuples |-> tuples]

\* a word of a line: its text and what float(text) returns, None when float raises ValueError
Tok(text, f) == [text |-> text, float |-> f]

\* a line of a payload: whether its bytes decode as UTF-8, and the words of line.split()
Line(parts) == [utf8 |-> TRUE, parts |-> parts]
Undecodable == [utf8 |-> FALSE, parts |-> << >>]

\* the payloads of test_integration, a payload with a bad second line, one with bytes
\* that are not UTF-8, one whose value is not a number and one with no line
Payloads ==
    { << >>,
      << Line(<<Tok("one", None), Tok("1", Some(1)), Tok("1", Some(1))>>) >>,
      << Line(<<Tok("one", None), Tok("5", Some(5)), Tok("2", Some(2))>>),
         Line(<<Tok("two", None), Tok("2", Some(2)), Tok("5", Some(5))>>) >>,
      << Line(<<Tok("ok", None), Tok("1", Some(1)), Tok("1", Some(1))>>),
         Line(<<Tok("garbage", None), Tok("line", None)>>) >>,
      << Line(<<Tok("one", None), Tok("1", Some(1)), Tok("12", Some(12))>>),
         Undecodable >>,
      << Line(<<Tok("one", None), Tok("x", None), Tok("1", Some(1))>>) >> }

\* the values of tsdb._now() the daemon reads for its own samples
DaemonNows == {100, 110}

\* what float() returns for 'nan' and for 'inf': floats that are not finite, as numbers
\* outside the range of the finite values of the model
nan == -2147483647
inf == 2147483647

\* a variant that returns the numbers in the order of the line
parse_lineSwapped(line) ==
    IF ~line.utf8 THEN None
    ELSE IF Len(line.parts) # 3 THEN None
    ELSE IF line.parts[2].float = None THEN None
    ELSE IF line.parts[3].float = None THEN None
    ELSE Some(<<line.parts[1].text, line.parts[2].float[1], line.parts[3].float[1]>>)

\* l.decode('utf-8') then parse_line(line): None when either raises, else Some(tuple)
parse_line(line) ==
    IF ~line.utf8 THEN None
    ELSE IF Len(line.parts) # 3 THEN None
    ELSE IF line.parts[2].float = None THEN None
    ELSE IF line.parts[3].float = None THEN None
    ELSE Some(<<line.parts[1].text, line.parts[3].float[1], line.parts[2].float[1]>>)

\* a variant that skips the lines that raise
RECURSIVE parse_linesSkipBad(_, _, _)
parse_linesSkipBad(lines, pid, i) ==
    IF i > Len(lines) THEN Some(<< >>)
    ELSE IF parse_line(lines[i]) = None THEN parse_linesSkipBad(lines, pid, i + 1)
    ELSE Some(<<Append(parse_line(lines[i])[1], <<pid, i>>)>>
              \o parse_linesSkipBad(lines, pid, i + 1)[1])

\* list(parse_lines(...)) of the lines of payload number pid: None when a line raises,
\* else Some(tuples), each tuple with its src
RECURSIVE parse_lines(_, _, _)
parse_lines(lines, pid, i) ==
    IF i > Len(lines) THEN Some(<< >>)
    ELSE IF parse_line(lines[i]) = None THEN None
    ELSE IF parse_lines(lines, pid, i + 1) = None THEN None
    ELSE Some(<<Append(parse_line(lines[i])[1], <<pid, i>>)>>
              \o parse_lines(lines, pid, i + 1)[1])

\* a variant that puts one item for each line
handle_putPerLine(q, lines, pid) ==
    IF parse_lines(lines, pid, 1) = None THEN q
    ELSE q \o [i \in 1..Len(parse_lines(lines, pid, 1)[1]) |->
                 batch(<<parse_lines(lines, pid, 1)[1][i]>>)]

\* a variant that puts the item at the head of the queue
handle_putFront(q, lines, pid) ==
    IF parse_lines(lines, pid, 1) = None THEN q
    ELSE <<batch(parse_lines(lines, pid, 1)[1])>> \o q

\* HandlerMixin.handle: the queue after the payload was handled
handle_put(q, lines, pid) ==
    IF parse_lines(lines, pid, 1) = None THEN q
    ELSE Append(q, batch(parse_lines(lines, pid, 1)[1]))

\* str.startswith
startswith(str, prefix) ==
    Len(str) >= Len(prefix) /\ SubSeq(str, 1, Len(prefix)) = prefix

\* f'{self_metric_prefix}'
fstr(prefix) == IF prefix = None THEN "None" ELSE prefix[1]

\* a variant that counts every tuple
non_self_countAll(tuples, prefix) == Len(tuples)

\* sum(1 for t in tuples if not t[0].startswith(f'{self_metric_prefix}.'))
RECURSIVE non_self_count(_, _)
non_self_count(tuples, prefix) ==
    IF tuples = << >> THEN 0
    ELSE (IF startswith(Head(tuples)[1], fstr(prefix) \o ".") THEN 0 ELSE 1)
         + non_self_count(Tail(tuples), prefix)

self_ok(tuples, prefix, now) ==
    IF prefix = None THEN << >>
    ELSE << <<fstr(prefix) \o ".insert", now, non_self_count(tuples, prefix), <<0, 0>>>> >>

self_error(prefix, now) ==
    IF prefix = None THEN << >>
    ELSE << <<fstr(prefix) \o ".error", now, 1, <<0, 0>>>> >>

\* a variant that inserts the first tuple only
insert_argHead(tuples, prefix, now) == <<Head(tuples)>> \o self_ok(tuples, prefix, now)

\* the argument of tsdb.insert in process()
insert_arg(tuples, prefix, now) == tuples \o self_ok(tuples, prefix, now)

\* a variant that clears the list whether or not the insert raised
after_insertAlwaysClear(tuples, ok, prefix, now) == << >>

\* a variant that never clears the list
after_insertNeverClear(tuples, ok, prefix, now) ==
    IF ok THEN tuples ELSE tuples \o self_error(prefix, now)

\* `tuples` after the try of process(): cleared, or extended with self_error
after_insert(tuples, ok, prefix, now) ==
    IF ok THEN << >> ELSE tuples \o self_error(prefix, now)

\* run_daemon up to the loop: the servers serve, the timer runs
run_daemon(prefix) ==
    /\ pc = "idle"
    /\ pc' = "running"
    /\ self_metric_prefix' = prefix
    /\ serving' = TRUE
    /\ timing' = TRUE
    /\ actor' = "main"
    /\ UNCHANGED <<queue, buffer, doneSent, nrecv, ticks, consumed, calls, lastRecv, beforeDone,
                   tcpOpen>>
    /\ UNCHANGED tsdbVars
    /\ UNCHANGED otherVars

\* a variant in which the handler extends the list of the consumer itself
handleDirect(server, lines) ==
    /\ serving
    /\ nrecv < MaxPayloads
    /\ nrecv' = nrecv + 1
    /\ lastRecv' = Some([pid |-> nrecv + 1, lines |-> lines])
    /\ buffer' = IF parse_lines(lines, nrecv + 1, 1) = None THEN buffer
                 ELSE buffer \o parse_lines(lines, nrecv + 1, 1)[1]
    /\ actor' = server
    /\ UNCHANGED <<queue, beforeDone, pc, serving, timing, doneSent, self_metric_prefix,
                   ticks, consumed, calls, tcpOpen>>
    /\ UNCHANGED tsdbVars
    /\ UNCHANGED otherVars

\* a request handled by the thread of a server, "udp" or "tcp"
handle(server, lines) ==
    /\ serving
    /\ nrecv < MaxPayloads
    /\ nrecv' = nrecv + 1
    /\ lastRecv' = Some([pid |-> nrecv + 1, lines |-> lines])
    /\ queue' = handle_put(queue, lines, nrecv + 1)
    /\ beforeDone' = IF parse_lines(lines, nrecv + 1, 1) # None /\ ~doneSent
                     THEN beforeDone \cup
                          {<<nrecv + 1, i>> : i \in DOMAIN lines}
                     ELSE beforeDone
    /\ actor' = server
    /\ tcpOpen' = IF server = "tcp" THEN FALSE ELSE tcpOpen
    /\ UNCHANGED <<buffer, pc, serving, timing, doneSent, self_metric_prefix, ticks,
                   consumed, calls>>
    /\ UNCHANGED tsdbVars
    /\ UNCHANGED otherVars

\* run_timer(10, queue.put, TIME): the thread of the timer puts TIME
timer_put ==
    /\ timing
    /\ ticks < MaxTicks
    /\ ticks' = ticks + 1
    /\ queue' = Append(queue, TIME)
    /\ actor' = "timer"
    /\ UNCHANGED <<buffer, pc, serving, timing, doneSent, self_metric_prefix, nrecv,
                   consumed, calls, lastRecv, beforeDone, tcpOpen>>
    /\ UNCHANGED tsdbVars
    /\ UNCHANGED otherVars

\* signal_done of main, on SIGTERM
signal_done ==
    /\ ~doneSent
    /\ pc # "returned"
    /\ doneSent' = TRUE
    /\ queue' = Append(queue, DONE)
    /\ actor' = "signal"
    /\ UNCHANGED <<buffer, pc, serving, timing, self_metric_prefix, nrecv, ticks,
                   consumed, calls, lastRecv, beforeDone, tcpOpen>>
    /\ UNCHANGED tsdbVars
    /\ UNCHANGED otherVars

\* process(): tsdb.insert returns (ok) or raises
process(ok, now) ==
    IF buffer = << >>
    THEN UNCHANGED <<buffer, calls>> /\ UNCHANGED tsdbVars
    ELSE /\ calls' = Append(calls, [arg   |-> insert_arg(buffer, self_metric_prefix, now),
                                    ok    |-> ok,
                                    first |-> nextId])
         /\ buffer' = after_insert(buffer, ok, self_metric_prefix, now)
         /\ IF ok THEN insert_db(insert_arg(buffer, self_metric_prefix, now))
                  ELSE UNCHANGED tsdbVars

\* one turn of the loop of run_daemon: it = queue.get() and what follows
consume(ok, now) ==
    /\ pc = "running"
    /\ queue # << >>
    /\ queue' = Tail(queue)
    /\ consumed' = consumed + 1
    /\ actor' = "consumer"
    /\ IF Head(queue) = DONE
       THEN process(ok, now) /\ pc' = "exited"
       ELSE IF Head(queue) = TIME
       THEN process(ok, now) /\ pc' = pc
       ELSE /\ buffer' = buffer \o Head(queue).tuples
            /\ pc' = pc
            /\ UNCHANGED calls
            /\ UNCHANGED tsdbVars
    /\ UNCHANGED <<serving, timing, doneSent, self_metric_prefix, nrecv, ticks,
                   lastRecv, beforeDone, tcpOpen>>
    /\ UNCHANGED otherVars

\* leaving `with socketservers, timer`: first the timer is stopped and joined
stop_timer ==
    /\ pc = "exited"
    /\ timing
    /\ timing' = FALSE
    /\ actor' = "main"
    /\ UNCHANGED <<queue, buffer, pc, serving, doneSent, self_metric_prefix, nrecv, ticks,
                   consumed, calls, lastRecv, beforeDone, tcpOpen>>
    /\ UNCHANGED tsdbVars
    /\ UNCHANGED otherVars

\* then server.shutdown() of both servers, and run_daemon returns; shutdown() waits for
\* the loop of serve_forever, which is not left while a handler is reading a connection
stop_servers ==
    /\ pc = "exited"
    /\ ~timing
    /\ ~tcpOpen
    /\ serving' = FALSE
    /\ pc' = "returned"
    /\ actor' = "main"
    /\ UNCHANGED <<queue, buffer, timing, doneSent, self_metric_prefix, nrecv, ticks,
                   consumed, calls, lastRecv, beforeDone, tcpOpen>>
    /\ UNCHANGED tsdbVars
    /\ UNCHANGED otherVars

(* The TCP server is a plain TCPServer: serve_forever runs the handler of   *)
(* an accepted connection in its own thread, and StreamRequestHandler.rfile *)
(* is read until the client closes.  tcp_accept is the start of a handler   *)
(* whose client has not closed yet; handle("tcp", lines) is its end.        *)
tcp_accept ==
    /\ serving
    /\ ~tcpOpen
    /\ nrecv < MaxPayloads
    /\ tcpOpen' = TRUE
    /\ actor' = "tcp"
    /\ UNCHANGED <<queue, buffer, pc, serving, timing, doneSent, self_metric_prefix, nrecv,
                   ticks, consumed, calls, lastRecv, beforeDone>>
    /\ UNCHANGED tsdbVars
    /\ UNCHANGED otherVars

NextDaemon ==
    \/ \E prefix \in {None, Some("smalltsdb.daemon")} : run_daemon(prefix)
    \/ \E server \in {"udp", "tcp"}, lines \in Payloads : handle(server, lines)
    \/ timer_put
    \/ signal_done
    \/ \E ok \in BOOLEAN, now \in DaemonNows : consume(ok, now)
    \/ stop_timer
    \/ stop_servers

SpecDaemon == Init /\ [][NextDaemon]_vars

\* the daemon with TCP clients that may keep their connection open
NextShutdown ==
    \/ NextDaemon
    \/ tcp_accept

\* the threads of the program are scheduled: the consumer loop and the exit of the with
\* block go on when they can; nothing makes a client send, close or signal
SpecShutdown ==
    /\ Init /\ [][NextShutdown]_vars
    /\ WF_vars(\E ok \in BOOLEAN, now \in DaemonNows : consume(ok, now))
    /\ WF_vars(stop_timer)
    /\ WF_vars(stop_servers)

----------------------------------------------------------------------------
(* parse_line on its own: lines of words and whitespace *)

MaxWords == 4

\* a whitespace character of a line
SP == Tok(" ", None)

\* the words: a name, numbers, the floats that are not finite, and a word that is no number
Words ==
    { Tok("one", None), Tok("1", Some(1)), Tok("12", Some(12)),
      Tok("nan", Some(nan)), Tok("inf", Some(inf)), Tok("x", None) }

RECURSIVE Spaces(_)
Spaces(n) == IF n = 0 THEN << >> ELSE <<SP>> \o Spaces(n - 1)

\* the characters of a line: `lead` spaces, the words with `gap` spaces between, `trail` spaces
RECURSIVE Joined(_, _)
Joined(words, gap) ==
    IF Len(words) <= 1 THEN words
    ELSE <<Head(words)>> \o Spaces(gap) \o Joined(Tail(words), gap)

RawLines ==
    { Spaces(lead) \o Joined(words, gap) \o Spaces(trail) :
        words \in UNION { [1..n -> Words] : n \in 0..MaxWords },
        lead \in {0, 1}, gap \in {1, 2}, trail \in {0, 1} }

\* str.split(): the runs of characters that are not whitespace
split(raw) == SelectSeq(raw, LAMBDA c : c # SP)

\* one call of parse_line; the function keeps no state, so one call is a whole behaviour
parse_line_call(raw) ==
    /\ fnArgs = None
    /\ fnArgs' = raw
    /\ fnRes' = parse_line(Line(split(raw)))
    /\ UNCHANGED <<raised, _db, conns, ivArgs, ivRes>>
    /\ UNCHANGED <<incoming, agg, nextId, inserts, clock, lastOp,
                   startIncoming, startAgg, dirty, repeat, due, seen, failed>>
    /\ UNCHANGED daemonVars
    /\ UNCHANGED otherVars

NextParse == \E raw \in RawLines : parse_line_call(raw)

SpecParse == Init /\ [][NextParse]_vars

----------------------------------------------------------------------------
(* The store as a library: insert, sync, get_metric and close of one       *)
(* TablesTSDB on a database file.                                          *)

STATS == {"n", "min", "max", "avg", "sum", "p50", "p90", "p99"}

\* the inserts of a behaviour of SpecStore
MaxStoreInserts == 2

\* close() is not called once this many connections were opened
MaxConns == 2

\* the second batch holds a sample whose timestamp is NaN, which sqlite3 binds as NULL
StoreBatches ==
    { << <<"one", 1, 1>>, <<"one", 25, 2>>, <<"two", 5, 2>> >>,
      << <<"one", 12, 5>> >>,
      << <<"one", 3, 1>>, <<"two", nan, 1>>, <<"one", 4, 1>> >> }

StoreNows == {86470}

\* an end of the interval of get_metric: epoch seconds, or a datetime
Num(v) == [datetime |-> FALSE, v |-> v]
DT(v) == [datetime |-> TRUE, v |-> v]

GetMetricArgs ==
    { <<path, period, stat, interval>> :
        path \in {"one", "three"},
        period \in {"tensecond", "minute"},
        stat \in {"max", "count"},
        interval \in { <<Num(0), Num(20)>>, <<Num(10), Num(10)>>,
                       <<Num(30), Num(0)>>, <<DT(0), Num(20)>> } }

\* a variant that checks the period only
valid_argsPeriodOnly(period, stat) == period \in PeriodNames

\* assert period in PERIODS; assert stat in STATS
valid_args(period, stat) == period \in PeriodNames /\ stat \in STATS

\* the column `stat` of a rollup row; avg is sum / n, a quantile is a function of the group
column(row, stat) ==
    CASE stat = "n"   -> row.n
      [] stat = "min" -> row.min
      [] stat = "max" -> row.max
      [] stat = "sum" -> row.sum
      [] stat = "avg" -> <<row.sum, row.n>>
      [] OTHER        -> <<stat, row.ids>>

\* variants of the where clause: end excluded
where_metricHalfOpen(table, path, start, end) ==
    {row \in table : row.path = path /\ start <= row.timestamp /\ row.timestamp < end}

\* where path = :path and timestamp between :start and :end
where_metric(table, path, start, end) ==
    {row \in table : row.path = path /\ start <= row.timestamp /\ row.timestamp <= end}

\* order by timestamp, as a list
RECURSIVE order_by_timestamp(_)
order_by_timestamp(rows) ==
    IF rows = {} THEN << >>
    ELSE LET r == CHOOSE x \in rows : \A y \in rows : x.timestamp <= y.timestamp
         IN  <<r>> \o order_by_timestamp(rows \ {r})

\* list(rows) of select timestamp, {stat} from {period} where ... order by timestamp
select_metric(period, path, stat, start, end) ==
    LET rows == order_by_timestamp(where_metric(agg[period], path, start, end))
    IN  [i \in DOMAIN rows |-> <<rows[i].timestamp, column(rows[i], stat)>>]

(* BaseTSDB.get_metric: the asserts, the conversion of datetimes by        *)
(* epoch_from_datetime, a name tsdb.py does not import, then the query.    *)
get_metric(path, period, stat, interval) ==
    /\ fnArgs' = <<path, period, stat, interval>>
    /\ lastOp' = "get_metric"
    /\ IF ~valid_args(period, stat)
       THEN raised' = "AssertionError" /\ fnRes' = None /\ UNCHANGED <<_db, conns>>
       ELSE IF interval[1].datetime \/ interval[2].datetime
       THEN raised' = "NameError" /\ fnRes' = None /\ UNCHANGED <<_db, conns>>
       ELSE /\ use_db
            /\ raised' = ""
            /\ fnRes' = Some(select_metric(period, path, stat, interval[1].v, interval[2].v))
    /\ UNCHANGED <<incoming, agg, nextId, inserts, clock, startIncoming, startAgg,
                   dirty, repeat, due, seen, ivArgs, ivRes, failed>>
    /\ UNCHANGED daemonVars
    /\ UNCHANGED otherVars

\* the columns timestamp and value are declared not null
not_null(t) == t[2] # nan /\ t[3] # nan

\* the rows executemany has inserted when it reaches the first sample sqlite3 rejects
written_before_error(tuples) ==
    LET k == CHOOSE i \in DOMAIN tuples :
                 ~not_null(tuples[i]) /\ \A j \in 1..(i - 1) : not_null(tuples[j])
    IN  { [ id        |-> nextId + i - 1,
            path      |-> tuples[i][1],
            timestamp |-> tuples[i][2],
            value     |-> tuples[i][3] ] : i \in 1..(k - 1) }

(* BaseTSDB.insert(tuples) when a sample violates a not null constraint:   *)
(* executemany raises IntegrityError inside `with self.db`, which rolls    *)
(* the transaction back and lets the exception through.                    *)
insert_raise(tuples) ==
    /\ inserts < MaxStoreInserts
    /\ \E i \in DOMAIN tuples : ~not_null(tuples[i])
    /\ use_db
    /\ incoming' = rollback(incoming, written_before_error(tuples))
    /\ raised' = "IntegrityError"
    /\ lastOp' = "insert_failed"
    /\ inserts' = inserts + 1
    /\ UNCHANGED <<agg, nextId, clock, startIncoming, startAgg, dirty, repeat, due, seen,
                   ivArgs, ivRes, failed, fnArgs, fnRes>>
    /\ UNCHANGED daemonVars
    /\ UNCHANGED otherVars

\* self.db.close(): the property db opens a connection when there is none
close_db == IF _db = None THEN conns' = conns + 1 ELSE UNCHANGED conns

\* BaseTSDB.close(): self.db.close(); self._db = None
close ==
    /\ conns < MaxConns
    /\ close_db
    /\ _db' = None
    /\ raised' = ""
    /\ lastOp' = "close"
    /\ UNCHANGED <<incoming, agg, nextId, inserts, clock, startIncoming, startAgg,
                   dirty, repeat, due, seen, ivArgs, ivRes, failed, fnArgs, fnRes>>
    /\ UNCHANGED daemonVars
    /\ UNCHANGED otherVars

NextStore ==
    \/ \E tuples \in StoreBatches :
          /\ inserts < MaxStoreInserts
          /\ \A i \in DOMAIN tuples : not_null(tuples[i])
          /\ insert(tuples)
    \/ \E tuples \in StoreBatches : insert_raise(tuples)
    \/ \E now \in StoreNows : sync(now)
    \/ \E a \in GetMetricArgs : get_metric(a[1], a[2], a[3], a[4])
    \/ close

SpecStore == Init /\ [][NextStore]_vars

----------------------------------------------------------------------------
(* The command `smalltsdb sync [--lock-file L]` (src/smalltsdb/cli.py):    *)
(* each invocation is a process of its own with its own TSDB object; the   *)
(* lock is not released by the command, it goes with the process.          *)

CliNows == {70, 86470}

\* a variant in which the lock is always granted
acquireAlways(holder) == TRUE

\* InterProcessLock(lock_file).acquire(blocking=False): granted when no process holds the lock
acquire(holder) == holder = None

\* the invocation up to the call of TSDB.sync: the lock, or ClickException and exit code 1
cli_start(p, lock_file) ==
    /\ cli[p].pc = "new"
    /\ IF lock_file /\ ~acquire(lock)
       THEN /\ cli' = [cli EXCEPT ![p] = [pc |-> "exited", lock_file |-> lock_file,
                                          called |-> FALSE, exit |-> Some(1)]]
            /\ UNCHANGED lock
       ELSE /\ cli' = [cli EXCEPT ![p] = [pc |-> "syncing", lock_file |-> lock_file,
                                          called |-> TRUE, exit |-> None]]
            /\ lock' = IF lock_file THEN Some(p) ELSE lock
    /\ UNCHANGED <<incoming, agg, nextId, inserts, clock, lastOp, startIncoming, startAgg,
                   dirty, repeat, due, seen, ivArgs, ivRes, failed, _db, conns, two,
                   scopeVars>>
    /\ UNCHANGED daemonVars
    /\ UNCHANGED extVars

\* smalltsdb.TSDB(path).sync() of the invocation returns
cli_sync(p, now) ==
    /\ cli[p].pc = "syncing"
    /\ sync_db(now)
    /\ cli' = [cli EXCEPT ![p].pc = "synced"]
    /\ UNCHANGED <<two, lock, scopeVars>>
    /\ UNCHANGED daemonVars

\* the process ends with exit code 0; its lock is released with it
cli_exit(p) ==
    /\ cli[p].pc = "synced"
    /\ cli' = [cli EXCEPT ![p].pc = "exited", ![p].exit = Some(0)]
    /\ lock' = IF lock = Some(p) THEN None ELSE lock
    /\ UNCHANGED <<incoming, agg, nextId, inserts, clock, lastOp, startIncoming, startAgg,
                   dirty, repeat, due, seen, ivArgs, ivRes, failed, _db, conns, two,
                   scopeVars>>
    /\ UNCHANGED daemonVars
    /\ UNCHANGED extVars

NextCli ==
    \/ \E tuples \in FailBatches : inserts < MaxFailInserts /\ insert(tuples)
    \/ \E p \in Procs, lock_file \in BOOLEAN : cli_start(p, lock_file)
    \/ \E p \in Procs, now \in CliNows : cli_sync(p, now)
    \/ \E p \in Procs : cli_exit(p)

SpecCli == Init /\ [][NextCli]_vars

----------------------------------------------------------------------------
(* TwoDatabasesTSDB: _open_db attaches the database incoming_path as `aux` *)
(* and creates incoming there; the rollup tables are created in `main`.    *)
(* insert and sync are the methods of TablesTSDB, run on this connection:  *)
(* their SQL names the tables without a schema.  The variable `two` is     *)
(* the database of a TwoDatabasesTSDB that is given the calls of the       *)
(* TablesTSDB of the first section, one for one.                           *)

\* the schema an unqualified table name resolves to: main before the attached database
schema_of(db, name) == IF name \in DOMAIN db.main THEN "main" ELSE "aux"

\* the rows of the table an unqualified name resolves to
resolve(db, name) == db[schema_of(db, name)][name]

\* the database after the table `name` is given the rows `rows`
write(db, name, rows) == [db EXCEPT ![schema_of(db, name)][name] = rows]

\* insert into incoming values (?, ?, ?), for each tuple; `first` is history, as nextId
two_insert(db, tuples, first) ==
    write(db, "incoming",
          resolve(db, "incoming") \cup
            { [ id        |-> first + i - 1,
                path      |-> tuples[i][1],
                timestamp |-> tuples[i][2],
                value     |-> tuples[i][3] ] : i \in DOMAIN tuples })

\* max(<name>.timestamp) of the finals query, for a path of incoming
two_last_final(db, name, path) ==
    LET ts == {row.timestamp : row \in {x \in resolve(db, name) : x.path = path}}
    IN  IF ts = {} THEN None ELSE Some(MaxOf(ts))

\* the select of the sync query for one path and its final interval
two_sync_query(db, seconds, path, start, end) ==
    LET sel == {r \in resolve(db, "incoming") :
                   r.path = path /\ start <= r.timestamp /\ r.timestamp <= end}
        group(b) == {r \in sel : agg_ts(r.timestamp, seconds) = b}
    IN  { [ path      |-> path,
            timestamp |-> b,
            n         |-> Cardinality(group(b)),
            min       |-> MinOf({r.value : r \in group(b)}),
            max       |-> MaxOf({r.value : r \in group(b)}),
            sum       |-> SumValues(group(b)),
            ids       |-> {r.id : r \in group(b)} ]
          : b \in {agg_ts(r.timestamp, seconds) : r \in sel} }

\* the pass of one period: the finals query, then insert or replace for each path
two_pass(db, name, now) ==
    LET final_of(path) == intervals(SecondsOf(name), _tail, now, two_last_final(db, name, path))[1]
        rows == UNION { two_sync_query(db, SecondsOf(name), path, final_of(path)[1], final_of(path)[2])
                        : path \in {r.path : r \in resolve(db, "incoming")} }
    IN  write(db, name, insert_or_replace(resolve(db, name), rows))

\* the passes of PERIODS[1..k], in order
RECURSIVE two_passes(_, _, _)
two_passes(db, k, now) ==
    IF k = 0 THEN db ELSE two_pass(two_passes(db, k - 1, now), PERIODS[k].name, now)

\* a variant whose delete does not reach the attached database
two_deleteNone(db, now) == db

\* delete from incoming where timestamp < delete_end
two_delete(db, now) ==
    write(db, "incoming", {r \in resolve(db, "incoming") : ~(r.timestamp < delete_end(now))})

\* _sync on the connection of the TwoDatabasesTSDB
two_sync(db, now) == two_delete(two_passes(db, Len(PERIODS), now), now)

\* insert(tuples) on both stores
both_insert(tuples) ==
    /\ inserts < MaxInserts
    /\ insert_db(tuples)
    /\ two' = two_insert(two, tuples, nextId)
    /\ UNCHANGED <<lock, cli, scopeVars>>
    /\ UNCHANGED daemonVars

\* sync() on both stores, with _now() returning `now` to both
both_sync(now) ==
    /\ sync_db(now)
    /\ two' = two_sync(two, now)
    /\ UNCHANGED <<lock, cli, scopeVars>>
    /\ UNCHANGED daemonVars

NextTwo ==
    \/ \E tuples \in Batches : both_insert(tuples)
    \/ \E now \in Nows : both_sync(now)

SpecTwo == Init /\ [][NextTwo]_vars

----------------------------------------------------------------------------
(* Scopes of one Timing or Timer object, entered and left by `with` in one *)
(* thread: the scope that exits is the innermost one that is open.         *)

\* the scopes entered in a behaviour of SpecTiming
MaxScopes == 3

\* the objects a behaviour is about
TimingObjects ==
    { Timing(callbacks) : callbacks \in { << >>, <<"time">>, <<"user", "time">> } }
    \cup { Timer(callbacks, prefix) :
             callbacks \in { << >>, <<"time">>, <<"user", "time">> },
             prefix \in {None, Some("root")} }

\* the arguments of __call__: a name, or for a Timer a prefix and a name
ScopeArgs(kind) ==
    { <<name, None>> : name \in {"outer", "inner"} }
    \cup (IF kind = "Timer" THEN { <<"prefix", Some(name)>> : name \in {"all", "one"} } ELSE {})

\* the object is made
construct(object) ==
    /\ tm = Timing(<< >>)
    /\ tm' = object
    /\ UNCHANGED <<two, lock, cli, view>>
    /\ UNCHANGED tsdbVars
    /\ UNCHANGED daemonVars

\* `with timer(...)` is entered
enter(args) ==
    /\ tm.sid < MaxScopes
    /\ tm' = [scope_enter(tm, args[1], args[2], tm.tick) EXCEPT !.tick = @ + 1, !.exc = FALSE]
    /\ UNCHANGED <<two, lock, cli, view>>
    /\ UNCHANGED tsdbVars
    /\ UNCHANGED daemonVars

\* the body of the innermost scope returns, or raises (exc)
exit(exc) ==
    /\ tm.stack # << >>
    /\ tm' = [scope_exit(tm, tm.tick) EXCEPT !.tick = @ + 1, !.exc = exc]
    /\ UNCHANGED <<two, lock, cli, view>>
    /\ UNCHANGED tsdbVars
    /\ UNCHANGED daemonVars

NextTiming ==
    \/ \E object \in TimingObjects : construct(object)
    \/ \E args \in ScopeArgs(tm.kind) : enter(args)
    \/ \E exc \in BOOLEAN : exit(exc)

SpecTiming == Init /\ [][NextTiming]_vars

----------------------------------------------------------------------------
(* TablesTSDB.sync with self_metric_prefix: _sync runs inside the scope    *)
(* 'sync.all' of self._timing, every pass and query in a scope of its own; *)
(* after the scope is left, the timings are inserted under the prefix.     *)
(* tm is self._timing here: Timing() with no callbacks, until a client     *)
(* calls add_default_callbacks.  The timestamp of a timing is utcnow() at  *)
(* the start of its scope, `utc` for all of them.                          *)

SelfBatches ==
    { << <<"one", 1, 1>>, <<"two", 5, 2>> >>,
      << <<"one", 12, 1>> >> }

MaxSelfInserts == 2

\* _now() of the sync: one value, so that a behaviour has one sync and the
\* timings of a sync are not the paths of a later one
SelfNows == {86470}

\* utcnow() of a sync: a clock that is behind _now(), or the same clock
SelfUtcs == {5, 86470}

\* Timing.add_default_callbacks: the clocks of psutil (without io_counters), then time
default_callbacks(callbacks, psutil) ==
    LET names == {callbacks[i] : i \in DOMAIN callbacks}
    IN  callbacks
          \o (IF psutil /\ "user" \notin names THEN <<"user", "system">> ELSE << >>)
          \o (IF "time" \notin names THEN <<"time">> ELSE << >>)

add_default_callbacks(psutil) ==
    /\ tm' = [tm EXCEPT !.callbacks = default_callbacks(@, psutil)]
    /\ UNCHANGED <<two, lock, cli, view>>
    /\ UNCHANGED tsdbVars
    /\ UNCHANGED daemonVars

\* with self._timing(name): a block that opens no scope
timed(t, name, at) == scope_exit(scope_enter(t, name, None, at), at)

\* the scope of the sync query, once for each path of the finals query: k blocks,
\* one after the other, each leaving the stack of open scopes as it found it
RECURSIVE timed_times(_, _, _, _)
timed_times(t, name, k, at) ==
    IF k = 0 THEN t
    ELSE IF k = 1 THEN timed(t, name, at)
    ELSE LET half == timed_times(t, name, k \div 2, at)
         IN  CASE half.stack = t.stack -> timed_times(half, name, k - (k \div 2), at)

\* the scopes of the pass of one period
pass_scopes(t, name, npaths, at) ==
    scope_exit(
        timed_times(
            timed(scope_enter(t, "sync." \o name \o ".all", None, at),
                  "sync." \o name \o ".finals_query", at),
            "sync." \o name \o ".sync_query", npaths, at),
        at)

RECURSIVE passes_scopes(_, _, _, _)
passes_scopes(t, k, npaths, at) ==
    IF k = 0 THEN t ELSE pass_scopes(passes_scopes(t, k - 1, npaths, at), PERIODS[k].name, npaths, at)

\* self._timing after `with self._timing('sync.all') as timings: self._sync()`
sync_scopes(t, npaths, at) ==
    scope_exit(
        timed(passes_scopes(scope_enter(t, "sync.all", None, at), Len(PERIODS), npaths, at),
              "sync.delete_incoming_query", at),
        at)

\* (f'{self.self_metric_prefix}.{t[0]}',) + t[1:] for t in timings
self_tuples(prefix, timings) ==
    [ i \in DOMAIN timings |->
        <<prefix \o "." \o timings[i].name, timings[i].start, timings[i].duration>> ]

\* a variant that inserts the timings before the delete of _sync
insert_then_delete(rows, now, timings) ==
    {r \in rows \cup timings : ~(r.timestamp < delete_end(now))}

\* incoming after the delete of _sync and then the insert of the timings
delete_then_insert(rows, now, timings) ==
    {r \in rows : ~(r.timestamp < delete_end(now))} \cup timings

\* sync() of a TablesTSDB with self_metric_prefix = prefix
sync_self(prefix, now, utc) ==
    LET t      == sync_scopes(tm, Cardinality(paths), utc)
        tuples == self_tuples(prefix, t.yielded)
        rows   == { [ id        |-> nextId + i - 1,
                      path      |-> tuples[i][1],
                      timestamp |-> tuples[i][2],
                      value     |-> tuples[i][3] ] : i \in DOMAIN tuples }
    IN  /\ now > clock
        /\ clock' = now
        /\ agg' = [name \in PeriodNames |-> insert_or_replace(agg[name], pass_rows(name, now))]
        /\ incoming' = delete_then_insert(incoming, now, rows)
        /\ nextId' = nextId + Len(tuples)
        /\ tm' = t
        /\ lastOp' = "sync"
        /\ startIncoming' = incoming
        /\ startAgg' = agg
        /\ repeat' = FALSE
        /\ dirty' = FALSE
        /\ due' = due \cup UNION { {<<r.id, name>> : r \in due_rows(name, now)} : name \in PeriodNames }
        /\ seen' = seen \cup UNION { {<<r.id, name>> : r \in seen_rows(now)} : name \in PeriodNames }
        /\ failed' = 0
        /\ use_db
        /\ raised' = ""
        /\ UNCHANGED <<inserts, ivArgs, ivRes, fnArgs, fnRes>>
        /\ UNCHANGED <<two, lock, cli, view>>
        /\ UNCHANGED daemonVars

NextSelf ==
    \/ \E tuples \in SelfBatches : inserts < MaxSelfInserts /\ insert(tuples)
    \/ \E psutil \in BOOLEAN : add_default_callbacks(psutil)
    \/ \E now \in SelfNows, utc \in SelfUtcs : sync_self("smalltsdb.sync", now, utc)

SpecSelf == Init /\ [][NextSelf]_vars

----------------------------------------------------------------------------
(* Clients that insert in time: no sample arrives after a sync has run with *)
(* now >= its timestamp + _tail.                                            *)

TimelyBatches ==
    { << <<"one", 10, 1>> >>,
      << <<"one", 12, 1>> >>,
      << <<"one", 1, 1>>, <<"two", 5, 2>> >>,
      << <<"two", 20, 2>>, <<"two", 25, 3>> >> }

TimelyNows == {70, 80, 90}

\* insert(tuples) while every sync so far had now < timestamp + _tail
timely_insert(tuples) ==
    /\ \A i \in DOMAIN tuples : clock < tuples[i][2] + _tail
    /\ insert(tuples)

NextTimely ==
    \/ \E tuples \in TimelyBatches : timely_insert(tuples)
    \/ \E now \in TimelyNows : sync(now)

SpecTimely == Init /\ [][NextTimely]_vars

----------------------------------------------------------------------------
(* Syncs a day later: the delete from incoming removes samples, some of     *)
(* them in a bucket of a day that the same sync has not made final.         *)

PruneBatches ==
    { << <<"one", 1, 1>>, <<"two", 5, 2>> >>,
      << <<"two", -5, 2>> >>,
      << <<"one", 86350, 1>> >>,
      << <<"one", 86410, 1>>, <<"two", 86369, 2>> >> }

PruneNows == {86470, 172830, 172900}

NextPrune ==
    \/ \E tuples \in PruneBatches : insert(tuples)
    \/ \E now \in PruneNows : sync(now)

SpecPrune == Init /\ [][NextPrune]_vars

----------------------------------------------------------------------------
(* ViewTSDB: incoming is its only table; the table of a period is a        *)
(* temporary view, sql_select_agg(seconds) over all of incoming; sync does *)
(* nothing.  `view` is the incoming of a ViewTSDB that is given the same   *)
(* inserts as the TablesTSDB and the TwoDatabasesTSDB.                     *)

ViewBatches ==
    { << <<"one", 1, 1>>, <<"one", 2, 5>>, <<"two", 5, 2>> >>,
      << <<"one", 12, 1>> >>,
      << <<"two", 0, 3>> >>,
      << <<"two", -5, 2>> >> }

ViewNows == {72, 82, 86472}

\* BaseTSDB.insert of the ViewTSDB; `first` is history, as nextId
view_insert(rows, tuples, first) ==
    rows \cup { [ id        |-> first + i - 1,
                  path      |-> tuples[i][1],
                  timestamp |-> tuples[i][2],
                  value     |-> tuples[i][3] ] : i \in DOMAIN tuples }

\* a variant of the view that groups by path only
view_tableByPath(rows, seconds) ==
    { [ path      |-> p,
        timestamp |-> agg_ts(MinOf({r.timestamp : r \in {x \in rows : x.path = p}}), seconds),
        n         |-> Cardinality({r \in rows : r.path = p}),
        min       |-> MinOf({r.value : r \in {x \in rows : x.path = p}}),
        max       |-> MaxOf({r.value : r \in {x \in rows : x.path = p}}),
        sum       |-> SumValues({r \in rows : r.path = p}),
        ids       |-> {r.id : r \in {x \in rows : x.path = p}} ]
      : p \in {r.path : r \in rows} }

\* select * from the view of a period: sql_select_agg(seconds), group by path, agg_ts
view_table(rows, seconds) ==
    LET group(p, b) == {r \in rows : r.path = p /\ agg_ts(r.timestamp, seconds) = b}
    IN  { [ path      |-> key[1],
            timestamp |-> key[2],
            n         |-> Cardinality(group(key[1], key[2])),
            min       |-> MinOf({r.value : r \in group(key[1], key[2])}),
            max       |-> MaxOf({r.value : r \in group(key[1], key[2])}),
            sum       |-> SumValues(group(key[1], key[2])),
            ids       |-> {r.id : r \in group(key[1], key[2])} ]
          : key \in {<<r.path, agg_ts(r.timestamp, seconds)>> : r \in rows} }

\* ViewTSDB.sync
view_sync(rows) == rows

\* insert(tuples) on the three stores
all_insert(tuples) ==
    /\ inserts < MaxInserts
    /\ insert_db(tuples)
    /\ two' = two_insert(two, tuples, nextId)
    /\ view' = view_insert(view, tuples, nextId)
    /\ UNCHANGED <<lock, cli, tm>>
    /\ UNCHANGED daemonVars

\* sync() on the three stores, with _now() returning `now`
all_sync(now) ==
    /\ sync_db(now)
    /\ two' = two_sync(two, now)
    /\ view' = view_sync(view)
    /\ UNCHANGED <<lock, cli, tm>>
    /\ UNCHANGED daemonVars

NextView ==
    \/ \E tuples \in ViewBatches : all_insert(tuples)
    \/ \E now \in ViewNows : all_sync(now)

SpecView == Init /\ [][NextView]_vars

----------------------------------------------------------------------------
(* Vocabulary of the properties *)

\* the rows of the rollup table of period `name` that count incoming row r
Counted(r, name) == {row \in agg[name] : r.id \in row.ids}

\* a table as the test reads it: select path, timestamp, n
PTN(table) == {<<row.path, row.timestamp, row.n>> : row \in table}

\* incoming as the tuples that were inserted
Tuples(rows) == {<<r.path, r.timestamp, r.value>> : r \in rows}

\* incoming holds exactly the tuples T, each once
IncomingIs(T) == Tuples(incoming) = T /\ Cardinality(incoming) = Cardinality(T)

\* a step of sync
SyncStep == lastOp' = "sync"

\* the rows a sync step wrote into the table of period `name`
Written(name) == agg'[name] \ agg[name]

\* the states of test_sync (tests/test_smalltsdb.py)
TestFirst  == {<<"one", 1, 1>>, <<"two", 5, 2>>}
TestSecond == {<<"one", 2, 5>>, <<"one", 12, 1>>}
TestRows70 == {<<"one", 0, 1>>, <<"two", 0, 1>>}
TestRows80 == {<<"one", 0, 1>>, <<"one", 10, 1>>, <<"two", 0, 1>>}

----------------------------------------------------------------------------
\* C1 (as stated): every row still in incoming is, for every period for which
\* a sync ran at now >= timestamp + tail while the row was there, counted in
\* exactly one rollup row: the row of its path at floor(timestamp / P) * P.
C1_Original ==
    \A r \in incoming : \A name \in PeriodNames :
        <<r.id, name>> \in seen =>
            /\ Cardinality(Counted(r, name)) = 1
            /\ \A row \in Counted(r, name) :
                  /\ row.path = r.path
                  /\ row.timestamp = Bucket(r.timestamp, SecondsOf(name))

\* C1 (amended): a row still in incoming is counted in at most one rollup row
\* of each period, and only in the row of its path at floor(timestamp / P) * P;
\* it is counted there once a pass of the period has run at
\* now >= floor(timestamp / P) * P + P + tail while the row (timestamp >= 0)
\* was in incoming and its path had no rollup row at or after that bucket.
C1_CountedOnceWhenDue ==
    \A r \in incoming : \A name \in PeriodNames :
        /\ Cardinality(Counted(r, name)) <= 1
        /\ \A row \in Counted(r, name) :
              /\ row.path = r.path
              /\ row.timestamp = Bucket(r.timestamp, SecondsOf(name))
        /\ <<r.id, name>> \in due => Cardinality(Counted(r, name)) = 1

\* a row counted because it was due, next to a row of the same path that a
\* pass saw at now >= timestamp + tail and that is counted nowhere
C1_Witness ==
    \E r \in incoming, x \in incoming :
        /\ <<r.id, "tensecond">> \in due
        /\ Cardinality(Counted(r, "tensecond")) = 1
        /\ x.path = r.path
        /\ <<x.id, "tensecond">> \in seen
        /\ Counted(x, "tensecond") = {}

----------------------------------------------------------------------------
\* C2 (as stated): every rollup row (path, B) of period P that sync writes has
\* n equal to the number of incoming rows of that path with timestamp in
\* [B, B + P) present when the row was written.
C2_Original ==
    [][ SyncStep =>
          \A name \in PeriodNames : \A row \in Written(name) :
              row.n = Cardinality({ r \in incoming :
                                      /\ r.path = row.path
                                      /\ row.timestamp <= r.timestamp
                                      /\ r.timestamp < row.timestamp + SecondsOf(name) })
      ]_vars

----------------------------------------------------------------------------
\* C3: a sync at now counts no incoming row with timestamp in (now - tail, now]
\* in any row it writes; with rows at timestamps 1 and 5 only, the sync at 69
\* leaves tensecond empty and the sync at 70 makes it ('one',0,1), ('two',0,1).
C3_TailNotFinal ==
    [][ SyncStep =>
          /\ \A name \in PeriodNames : \A row \in Written(name) : \A r \in incoming :
                r.id \in row.ids =>
                    ~(clock' - 60 < r.timestamp /\ r.timestamp <= clock')
          /\ (IncomingIs(TestFirst) /\ agg["tensecond"] = {}) =>
                /\ clock' = 69 => agg'["tensecond"] = {}
                /\ clock' = 70 => PTN(agg'["tensecond"]) = TestRows70
      ]_vars

\* after the sync at 70 of the test, with a row in (now - tail, now] counted nowhere
C3_Witness ==
    /\ lastOp = "sync"
    /\ clock = 70
    /\ PTN(agg["tensecond"]) = TestRows70
    /\ \E r \in incoming :
          /\ clock - 60 < r.timestamp /\ r.timestamp <= clock
          /\ \A name \in PeriodNames : Counted(r, name) = {}

----------------------------------------------------------------------------
\* C4 (as stated): for a (period, path) whose final interval is empty
\* (final_start >= final_end), sync inserts or replaces no row of that path in
\* the period's table, whatever incoming holds.
C4_Original ==
    [][ SyncStep =>
          \A name \in PeriodNames : \A p \in paths :
              final(name, p, clock')[1] >= final(name, p, clock')[2] =>
                  {row \in agg'[name] : row.path = p} = {row \in agg[name] : row.path = p}
      ]_vars

----------------------------------------------------------------------------
----------------------------------------------------------------------------
\* C6: a rollup row, once written, is changed by no later step, whatever is
\* inserted afterwards; from tensecond = ('one',0,1), ('two',0,1) with
\* ('one',2,5) and ('one',12,1) inserted, the sync at 79 changes nothing, the
\* sync at 80 adds only ('one',10,1), and the sync at 90 then changes nothing.
C6_RowsNeverChange ==
    [][ /\ \A name \in PeriodNames : agg[name] \subseteq agg'[name]
        /\ (SyncStep /\ IncomingIs(TestFirst \cup TestSecond)) =>
              /\ (PTN(agg["tensecond"]) = TestRows70 /\ clock' = 79) =>
                    agg'["tensecond"] = agg["tensecond"]
              /\ (PTN(agg["tensecond"]) = TestRows70 /\ clock' = 80) =>
                    /\ PTN(Written("tensecond")) = {<<"one", 10, 1>>}
                    /\ PTN(agg'["tensecond"]) = TestRows80
              /\ (PTN(agg["tensecond"]) = TestRows80 /\ clock' = 90) =>
                    agg'["tensecond"] = agg["tensecond"]
      ]_vars

\* the end of test_sync: after the sync at 90, ('one',0) still counts one row
\* although incoming holds two rows of its bucket
C6_Witness ==
    /\ lastOp = "sync"
    /\ clock = 90
    /\ IncomingIs(TestFirst \cup TestSecond)
    /\ PTN(agg["tensecond"]) = TestRows80
    /\ PTN(startAgg["tensecond"]) = TestRows80
    /\ \E r \in incoming : r.timestamp = 2 /\ Counted(r, "tensecond") = {}

----------------------------------------------------------------------------
\* C7 (as stated): from tensecond = ('one',0,1), ('two',0,1) with ('one',2,5)
\* and ('one',12,1) inserted, the sync at 80 adds ('one',10,1) and overwrites
\* the ('one',0) row with n = 2.
C7_Original ==
    [][ ( /\ SyncStep
          /\ clock' = 80
          /\ IncomingIs(TestFirst \cup TestSecond)
          /\ PTN(agg["tensecond"]) = TestRows70 ) =>
            PTN(agg'["tensecond"]) = {<<"one", 0, 2>>, <<"one", 10, 1>>, <<"two", 0, 1>>}
      ]_vars

\* C7 (amended): that sync adds ('one',10,1) and leaves the ('one',0) row at
\* n = 1: the final interval of 'one' starts after its last row, at 10, so the
\* bucket [0,10) is not computed again.
C7_SecondSyncKeepsFirstRow ==
    [][ ( /\ SyncStep
          /\ clock' = 80
          /\ IncomingIs(TestFirst \cup TestSecond)
          /\ PTN(agg["tensecond"]) = TestRows70 ) =>
            /\ final("tensecond", "one", clock')[1] = 10
            /\ PTN(agg'["tensecond"]) = {<<"one", 0, 1>>, <<"one", 10, 1>>, <<"two", 0, 1>>}
            /\ \A row \in agg["tensecond"] : row \in agg'["tensecond"]
      ]_vars

\* right after that sync at 80
C7_Witness ==
    /\ lastOp = "sync"
    /\ clock = 80
    /\ IncomingIs(TestFirst \cup TestSecond)
    /\ PTN(startAgg["tensecond"]) = TestRows70
    /\ PTN(agg["tensecond"]) = TestRows80

----------------------------------------------------------------------------
\* C8: a sync that runs at the now of the sync before it, with no insert since
\* that one began, leaves every rollup table and incoming as they were.
C8_SyncIdempotent ==
    (lastOp = "sync" /\ repeat) => (agg = startAgg /\ incoming = startIncoming)

\* a second sync at 86470 over rows of which the first deleted some and
\* counted the others
C8_Witness ==
    /\ lastOp = "sync"
    /\ repeat
    /\ clock = 86470
    /\ incoming # {}
    /\ \E name \in PeriodNames : \E row \in agg[name] :
          /\ row.n >= 2
          /\ \E r \in incoming : r.id \in row.ids
          /\ \E i \in row.ids : \A r \in incoming : r.id # i

----------------------------------------------------------------------------
\* C9: after a sync at now, incoming is what it was before the sync minus
\* exactly the rows with timestamp < now - tail - 86400.
C9_PruneFrame ==
    lastOp = "sync" =>
        incoming = {r \in startIncoming : ~(r.timestamp < clock - 60 - 86400)}

\* a sync that deleted some rows and kept others
C9_Witness ==
    /\ lastOp = "sync"
    /\ \E r \in startIncoming : r.timestamp < clock - 60 - 86400 /\ r \notin incoming
    /\ \E r \in startIncoming : r.timestamp = clock - 60 - 86400 /\ r \in incoming

----------------------------------------------------------------------------
\* C10: intervals(P, T, now, last_final) is
\* ((last_final + P, floor((now - T)/P)*P), (floor((now - T)/P)*P, (floor(now/P) + 1)*P)),
\* last_final = None counting as -P; with the values of the table.
C10_IntervalsFormula ==
    ivArgs # None =>
        LET P   == ivArgs[1]
            T   == ivArgs[2]
            now == ivArgs[3]
            lf  == IF ivArgs[4] = None THEN -P ELSE ivArgs[4][1]
            fe  == (now - T) - ((now - T) % P)
            pe  == now - (now % P) + P
        IN  /\ ivRes = << <<lf + P, fe>>, <<fe, pe>> >>
            /\ ivArgs = <<10, 30, 102, Some(30)>> => ivRes = << <<40, 70>>, <<70, 110>> >>
            /\ ivArgs = <<10, 30, 102, Some(60)>> => ivRes = << <<70, 70>>, <<70, 110>> >>
            /\ ivArgs = <<10, 30, 110, Some(60)>> => ivRes = << <<70, 80>>, <<80, 120>> >>
            /\ ivArgs = <<60, 30, 150, Some(0)>>  => ivRes = << <<60, 120>>, <<120, 180>> >>
            /\ ivArgs = <<60, 30, 150, None>>     => ivRes = << <<0, 120>>, <<120, 180>> >>

\* the first call of the table has been made
C10_Witness ==
    /\ ivArgs = <<10, 30, 102, Some(30)>>
    /\ ivRes = << <<40, 70>>, <<70, 110>> >>

----------------------------------------------------------------------------
\* the step is a sync in which the pass of a period raised
SyncFailedStep == lastOp' = "sync_failed" /\ startAgg' = agg /\ startIncoming' = incoming

(* C11, as stated: when the pass of a period fails, none of its writes is  *)
(* visible, and sync goes on: every other period gets its pass and         *)
(* incoming is pruned.                                                     *)
C11_Original ==
    [][SyncFailedStep =>
          /\ agg'[PERIODS[failed'].name] = agg[PERIODS[failed'].name]
          /\ \A name \in PeriodNames \ {PERIODS[failed'].name} :
                agg'[name] = insert_or_replace(agg[name], pass_rows(name, clock'))
          /\ incoming' = {r \in incoming : ~(r.timestamp < delete_end(clock'))}]_vars

(* C11, amended: when the pass of a period fails, none of its writes is    *)
(* visible, the passes of the periods before it stay committed, and sync   *)
(* stops there: the tables of the later periods and incoming are as they   *)
(* were.                                                                   *)
C11_FailedPassStopsSync ==
    [][SyncFailedStep =>
          /\ agg'[PERIODS[failed'].name] = agg[PERIODS[failed'].name]
          /\ \A name \in PeriodNames :
                /\ PeriodIndex(name) < failed' =>
                      agg'[name] = insert_or_replace(agg[name], pass_rows(name, clock'))
                /\ PeriodIndex(name) > failed' => agg'[name] = agg[name]
          /\ incoming' = incoming]_vars

\* the tensecond pass failed with rows to write, after the onesecond pass wrote some,
\* at a now where the delete would have removed rows
C11_Witness ==
    /\ lastOp = "sync_failed"
    /\ failed = 2
    /\ agg["onesecond"] # startAgg["onesecond"]
    /\ pass_rows("tensecond", clock) # {}
    /\ agg["tensecond"] = startAgg["tensecond"]
    /\ \E r \in incoming : r.timestamp < delete_end(clock)

----------------------------------------------------------------------------
(* Vocabulary of the properties of the daemon *)

\* the step is a turn of the consumer loop; Head(queue) is the item it took
ConsumerStep == consumed' = consumed + 1

\* the samples of a list that were parsed from payloads
FromPayloads(tuples) == {i \in DOMAIN tuples : tuples[i][4] # <<0, 0>>}

\* the srcs of the payload samples of a list
Srcs(tuples) == {tuples[i][4] : i \in FromPayloads(tuples)}

\* the places a payload sample with this src is written by a successful insert
Writes(src) ==
    UNION { { <<c, j>> : j \in {x \in DOMAIN calls[c].arg : calls[c].arg[x][4] = src} }
            : c \in {x \in DOMAIN calls : calls[x].ok} }

\* the incoming row the j-th sample of call c became
RowOf(c, j) ==
    [ id        |-> calls[c].first + j - 1,
      path      |-> calls[c].arg[j][1],
      timestamp |-> calls[c].arg[j][2],
      value     |-> calls[c].arg[j][3] ]

\* every src the daemon holds or has handed to insert
KnownSrcs ==
    UNION { Srcs(queue[i].tuples) : i \in DOMAIN queue }
    \cup Srcs(buffer)
    \cup UNION { Srcs(calls[c].arg) : c \in DOMAIN calls }

\* the number of places a src is at: batches of the queue, the buffer, successful inserts
Places(src) ==
    Cardinality({i \in DOMAIN queue : src \in Srcs(queue[i].tuples)})
    + Cardinality({i \in DOMAIN buffer : buffer[i][4] = src})
    + Cardinality(Writes(src))

(* C12: on a tick, with an empty buffer insert is not called; with a       *)
(* non-empty buffer it is called once, with the whole buffer (followed     *)
(* only by samples the daemon made itself); if it succeeds the buffer is   *)
(* empty afterwards and incoming has the rows, if it fails every sample is *)
(* still in the buffer and incoming is as it was.                          *)
C12_TickInsertsWholeBuffer ==
    [][(ConsumerStep /\ Head(queue) = TIME) =>
          IF buffer = << >>
          THEN calls' = calls /\ buffer' = << >> /\ incoming' = incoming
          ELSE /\ Len(calls') = Len(calls) + 1
               /\ SubSeq(calls', 1, Len(calls)) = calls
               /\ Len(calls'[Len(calls')].arg) >= Len(buffer)
               /\ SubSeq(calls'[Len(calls')].arg, 1, Len(buffer)) = buffer
               /\ FromPayloads(calls'[Len(calls')].arg) \subseteq DOMAIN buffer
               /\ IF calls'[Len(calls')].ok
                  THEN /\ buffer' = << >>
                       /\ Cardinality(incoming') =
                            Cardinality(incoming) + Len(calls'[Len(calls')].arg)
                  ELSE /\ Len(buffer') >= Len(buffer)
                       /\ SubSeq(buffer', 1, Len(buffer)) = buffer
                       /\ incoming' = incoming]_vars

\* a tick whose insert failed with payload samples kept, after a tick whose insert succeeded
C12_Witness ==
    /\ pc = "running"
    /\ Len(calls) = 2
    /\ calls[1].ok
    /\ ~calls[2].ok
    /\ Srcs(buffer) # {}
    /\ Srcs(buffer) = Srcs(calls[2].arg)

(* C13: a payload sample is written to incoming by at most one successful  *)
(* insert, and it is at exactly one place: a batch of the queue, the       *)
(* buffer, or the rows of one successful insert; so the first insert that  *)
(* succeeds after failed ones writes every sample they were called with.   *)
C13_WrittenOnceNoneLost ==
    /\ \A src \in KnownSrcs :
          /\ Places(src) = 1
          /\ \A w \in Writes(src) : RowOf(w[1], w[2]) \in incoming
    /\ \A c \in DOMAIN calls, k \in DOMAIN calls :
          (c < k /\ ~calls[c].ok /\ calls[k].ok /\ \A m \in (c+1)..(k-1) : ~calls[m].ok)
              => Srcs(calls[c].arg) \subseteq Srcs(calls[k].arg)

\* an insert failed and the next one succeeded, with samples buffered in between
C13_Witness ==
    /\ Len(calls) = 2
    /\ ~calls[1].ok
    /\ calls[2].ok
    /\ Srcs(calls[1].arg) # {}
    /\ Srcs(calls[2].arg) # Srcs(calls[1].arg)
    /\ Srcs(calls[1].arg) \subseteq Srcs(calls[2].arg)

----------------------------------------------------------------------------
\* the consumer takes DONE with samples buffered and no self_metric_prefix
DoneStepBuffered ==
    ConsumerStep /\ Head(queue) = DONE /\ buffer # << >> /\ self_metric_prefix = None

\* the step makes one call of insert, with exactly the buffer, and leaves the loop
OneFinalInsert ==
    /\ Len(calls') = Len(calls) + 1
    /\ SubSeq(calls', 1, Len(calls)) = calls
    /\ calls'[Len(calls')].arg = buffer
    /\ pc' = "exited"

\* the row of a sample written by a successful insert is in incoming, once
InIncoming(src) ==
    /\ Cardinality(Writes(src)) = 1
    /\ \A w \in Writes(src) : RowOf(w[1], w[2]) \in incoming

\* the sample is in incoming once, or is left in the buffer by a failed last insert
DrainedOrFailed(src) ==
    IF src \in Srcs(buffer)
    THEN /\ Writes(src) = {}
         /\ ~calls[Len(calls)].ok
         /\ src \in Srcs(calls[Len(calls)].arg)
    ELSE InIncoming(src)

(* C14, as stated: taking the shutdown item with N > 0 samples buffered    *)
(* (no prefix), the consumer makes exactly one final insert of exactly     *)
(* those N samples and leaves the loop; so once run_daemon has returned,   *)
(* every payload enqueued before the shutdown item is in incoming.         *)
C14_Original ==
    [][/\ DoneStepBuffered => OneFinalInsert
       /\ (pc' = "returned" /\ self_metric_prefix' = None) =>
              \A src \in beforeDone' : InIncoming(src)']_vars

(* C14, amended: the consumer makes exactly one final insert of exactly    *)
(* those N samples and leaves the loop whether the insert succeeds or      *)
(* fails; if it succeeds the N samples are in incoming, if it fails they   *)
(* are not and are only left in the buffer; once the loop is left, every   *)
(* sample enqueued before the shutdown item is in incoming once, or was in *)
(* a failed final insert.                                                  *)
C14_FinalInsertOnce ==
    [][/\ DoneStepBuffered =>
            /\ OneFinalInsert
            /\ IF calls'[Len(calls')].ok
               THEN /\ buffer' = << >>
                    /\ Cardinality(incoming') = Cardinality(incoming) + Len(buffer)
               ELSE /\ buffer' = buffer
                    /\ incoming' = incoming
       /\ pc' \in {"exited", "returned"} => \A src \in beforeDone' : DrainedOrFailed(src)']_vars

\* run_daemon has returned after one insert, made with no tick before it: the final one,
\* of the three samples of two payloads, which succeeded
C14_Witness ==
    /\ pc = "returned"
    /\ self_metric_prefix = None
    /\ ticks = 0
    /\ Len(calls) = 1
    /\ calls[1].ok
    /\ Len(calls[1].arg) = 3
    /\ Cardinality(beforeDone) = 3
    /\ \A src \in beforeDone : InIncoming(src)

(* C15, as stated: the listeners are stopped before the shutdown item is   *)
(* put, so no batch is in the queue behind the shutdown item, and once     *)
(* run_daemon has returned every sample a listener accepted and parsed has *)
(* been handed to insert.                                                  *)
C15_Original ==
    /\ doneSent /\ pc # "idle" => ~serving
    /\ \A i \in DOMAIN queue, j \in DOMAIN queue :
          (i < j /\ queue[i] = DONE) => queue[j].kind # "batch"
    /\ pc = "returned" =>
          KnownSrcs \subseteq UNION { Srcs(calls[c].arg) : c \in DOMAIN calls }

----------------------------------------------------------------------------
\* a limit on the samples held in memory (the code has none)
BufferLimit == 3

\* the samples held in memory: in the batches of the queue and in the buffer
RECURSIVE QueuedSamples(_)
QueuedSamples(q) ==
    IF q = << >> THEN 0 ELSE Len(Head(q).tuples) + QueuedSamples(Tail(q))

Held == QueuedSamples(queue) + Len(buffer)

(* C16, as stated: the queue and the buffer are bounded: the samples held  *)
(* never exceed a fixed limit, also when insert fails on every tick, and a *)
(* payload that arrives when the limit is reached is dropped at the        *)
(* listener: it does not add to what is held.                              *)
C16_Original ==
    [][/\ Held' <= BufferLimit
       /\ (nrecv' = nrecv + 1 /\ Held >= BufferLimit) => Held' = Held]_vars

\* the step is a request handled by a listener; lastRecv' is the payload
HandleStep == nrecv' = nrecv + 1

\* a line raises: its bytes are not UTF-8, or it has not three words, or its value or
\* its timestamp is not a number
BadLine(line) ==
    \/ ~line.utf8
    \/ Len(line.parts) # 3
    \/ \E k \in {2, 3} : k \in DOMAIN line.parts /\ line.parts[k].float = None

BadPayload(lines) == \E i \in DOMAIN lines : BadLine(lines[i])

\* the item put for a payload with no bad line
ItemOf(lines, pid) ==
    batch([i \in DOMAIN lines |->
             <<lines[i].parts[1].text, lines[i].parts[3].float[1],
               lines[i].parts[2].float[1], <<pid, i>>>>])

(* C17: a payload with a line that does not parse or decode puts nothing   *)
(* on the queue, not even its earlier lines: the queue, the buffer and     *)
(* incoming are as before and the listener keeps serving; a payload with   *)
(* no such line, also after a bad one, is put as one item at the back.     *)
C17_BadPayloadEnqueuesNothing ==
    [][HandleStep =>
          /\ serving'
          /\ buffer' = buffer
          /\ incoming' = incoming
          /\ IF BadPayload(lastRecv'[1].lines)
             THEN queue' = queue
             ELSE queue' = Append(queue, ItemOf(lastRecv'[1].lines, lastRecv'[1].pid))]_vars

\* the first payload had a bad line and left nothing, the second was put on the queue
C17_Witness ==
    /\ nrecv = 2
    /\ serving
    /\ ~BadPayload(lastRecv[1].lines)
    /\ lastRecv[1].lines # << >>
    /\ KnownSrcs = {<<2, i>> : i \in DOMAIN lastRecv[1].lines}
    /\ Len(queue) = 1
    /\ queue[1] = ItemOf(lastRecv[1].lines, 2)

----------------------------------------------------------------------------
\* the payload numbers of the samples the daemon holds or has handed to insert
KnownPids == {src[1] : src \in KnownSrcs}

\* the samples of payload pid, in the order of its lines, as a list of tuples holds them
OfPayload(tuples, pid) == SelectSeq(tuples, LAMBDA t : t[4][1] = pid)

InLineOrder(tuples, pid) ==
    \A i \in DOMAIN OfPayload(tuples, pid) : OfPayload(tuples, pid)[i][4] = <<pid, i>>

(* C18: the samples of a payload are one item of the queue, in the order   *)
(* of its lines; they are in the buffer together and in that order; and    *)
(* they are written by the same successful insert: in no state are some    *)
(* samples of a payload in incoming and others not.                        *)
C18_PayloadInsertedTogether ==
    /\ \A i \in DOMAIN queue :
          queue[i].kind = "batch" =>
              \A k \in DOMAIN queue[i].tuples :
                  \E pid \in 1..nrecv : queue[i].tuples[k][4] = <<pid, k>>
    /\ \A pid \in KnownPids :
          /\ InLineOrder(buffer, pid)
          /\ \A c \in DOMAIN calls : InLineOrder(calls[c].arg, pid)
          /\ \A s1 \in KnownSrcs, s2 \in KnownSrcs :
                (s1[1] = pid /\ s2[1] = pid) =>
                    /\ {w[1] : w \in Writes(s1)} = {w[1] : w \in Writes(s2)}
                    /\ (\E r \in incoming : \E w \in Writes(s1) : r = RowOf(w[1], w[2]))
                       <=> (\E r \in incoming : \E w \in Writes(s2) : r = RowOf(w[1], w[2]))
                    /\ (s1 \in Srcs(buffer)) <=> (s2 \in Srcs(buffer))

\* the two samples of one payload were in an insert that failed and then in the one that
\* succeeded, after the sample of another payload
C18_Witness ==
    /\ Len(calls) = 2
    /\ ~calls[1].ok
    /\ calls[2].ok
    /\ \E pid \in KnownPids :
          /\ Len(OfPayload(calls[1].arg, pid)) = 2
          /\ Len(OfPayload(calls[2].arg, pid)) = 2
          /\ calls[2].arg[1][4][1] # pid
          /\ \A i \in {1, 2} : InIncoming(<<pid, i>>)

\* the step is a call of insert by the daemon with a self_metric_prefix
PrefixedInsertStep ==
    /\ Len(calls') = Len(calls) + 1
    /\ self_metric_prefix # None

\* the buffered samples whose path does not start with '<prefix>.'
NonSelf(tuples) ==
    {i \in DOMAIN tuples : ~startswith(tuples[i][1], self_metric_prefix[1] \o ".")}

(* C19: with a self_metric_prefix, a successful insert writes the buffer   *)
(* and, in the same call, exactly one more sample, '<prefix>.insert',      *)
(* whose value is the number of buffered samples whose path does not start *)
(* with '<prefix>.'; a failed insert appends exactly one sample,           *)
(* '<prefix>.error' with value 1, to the buffer and keeps the others.      *)
C19_SelfMetrics ==
    [][PrefixedInsertStep =>
          /\ Len(calls'[Len(calls')].arg) = Len(buffer) + 1
          /\ SubSeq(calls'[Len(calls')].arg, 1, Len(buffer)) = buffer
          /\ calls'[Len(calls')].arg[Len(buffer) + 1][1] = self_metric_prefix[1] \o ".insert"
          /\ calls'[Len(calls')].arg[Len(buffer) + 1][3] = Cardinality(NonSelf(buffer))
          /\ IF calls'[Len(calls')].ok
             THEN /\ Cardinality(incoming') = Cardinality(incoming) + Len(buffer) + 1
                  /\ \A j \in 1..(Len(buffer) + 1) :
                        [ id        |-> nextId + j - 1,
                          path      |-> calls'[Len(calls')].arg[j][1],
                          timestamp |-> calls'[Len(calls')].arg[j][2],
                          value     |-> calls'[Len(calls')].arg[j][3] ] \in incoming'
                  /\ buffer' = << >>
             ELSE /\ incoming' = incoming
                  /\ Len(buffer') = Len(buffer) + 1
                  /\ SubSeq(buffer', 1, Len(buffer)) = buffer
                  /\ buffer'[Len(buffer')][1] = self_metric_prefix[1] \o ".error"
                  /\ buffer'[Len(buffer')][3] = 1]_vars

\* after a failed insert, a successful one wrote the error sample and counted only the others
C19_Witness ==
    /\ self_metric_prefix = Some("smalltsdb.daemon")
    /\ Len(calls) = 2
    /\ ~calls[1].ok
    /\ calls[2].ok
    /\ buffer = << >>
    /\ \E j \in DOMAIN calls[2].arg : calls[2].arg[j][1] = "smalltsdb.daemon.error"
    /\ calls[2].arg[Len(calls[2].arg)][1] = "smalltsdb.daemon.insert"
    /\ calls[2].arg[Len(calls[2].arg)][3] = Len(calls[2].arg) - 2
    /\ Cardinality(incoming) = Len(calls[2].arg)

(* C20: only the consumer calls insert and changes the buffer: a step that *)
(* changes the buffer, the calls of insert or incoming is a turn of the    *)
(* consumer loop; a step of the UDP listener, the TCP listener or the      *)
(* timer leaves them and the state of the loop alone and at most appends   *)
(* one item to the queue.                                                  *)
C20_OnlyConsumerInserts ==
    [][/\ (buffer' # buffer \/ calls' # calls \/ incoming' # incoming) =>
             (actor' = "consumer" /\ ConsumerStep)
       /\ (nrecv' # nrecv \/ ticks' # ticks) =>
             /\ actor' \in {"udp", "tcp", "timer"}
             /\ buffer' = buffer /\ calls' = calls /\ incoming' = incoming /\ pc' = pc
             /\ consumed' = consumed
             /\ queue' = queue \/ (Len(queue') = Len(queue) + 1
                                   /\ SubSeq(queue', 1, Len(queue)) = queue)]_vars

\* each of the three threads has put an item and the consumer has inserted
C20_Witness ==
    /\ nrecv = 2
    /\ ticks >= 1
    /\ consumed >= 3
    /\ lastRecv # None
    /\ \E c \in DOMAIN calls : calls[c].ok /\ Cardinality(Srcs(calls[c].arg)) >= 2
    /\ actor \in {"udp", "tcp"}

----------------------------------------------------------------------------
(* C21, as stated: once the shutdown item is on the queue of the running   *)
(* daemon, run_daemon terminates: the consumer leaves the loop, the timer  *)
(* is stopped, both servers are shut down, and run_daemon returns with no  *)
(* listener or timer thread left running.                                  *)
C21_Original ==
    (doneSent /\ pc = "running") ~> (pc = "returned" /\ ~serving /\ ~timing /\ ~tcpOpen)

----------------------------------------------------------------------------
\* the words of the line of the last call of parse_line
CallWords == SelectSeq(fnArgs, LAMBDA c : c.text # " ")

(* C22: parse_line splits the line on whitespace and returns only when     *)
(* there are exactly three words; it returns (path, timestamp, value) with *)
(* the first word as path, the second as value and the third as timestamp; *)
(* a line with fewer or more than three words, the empty line included,    *)
(* raises.                                                                 *)
C22_ThreeWordsPathValueTimestamp ==
    fnArgs # None =>
        /\ Len(CallWords) # 3 => fnRes = None
        /\ fnRes # None =>
              /\ Len(CallWords) = 3
              /\ CallWords[2].float # None
              /\ CallWords[3].float # None
              /\ fnRes = Some(<<CallWords[1].text, CallWords[3].float[1], CallWords[2].float[1]>>)
        /\ (Len(CallWords) = 3 /\ \A k \in {2, 3} : CallWords[k].float \in {Some(1), Some(12)})
              => fnRes # None

\* ' one  12  1 ' was parsed: the value is 12 and the timestamp 1
C22_Witness ==
    /\ fnArgs # None
    /\ Len(fnArgs) > 5
    /\ Head(fnArgs) = SP
    /\ fnRes = Some(<<"one", 1, 12>>)

(* C23, as stated: parse_line raises whenever the value word or the        *)
(* timestamp word does not parse as a finite real number: a word that is   *)
(* no number, and a word for NaN or an infinity, are both rejected.        *)
C23_Original ==
    (fnArgs # None /\ Len(CallWords) = 3) =>
        ((\E k \in {2, 3} : CallWords[k].float \notin {Some(1), Some(12)}) => fnRes = None)

----------------------------------------------------------------------------
\* the arguments of the get_metric call of a step
CallPath == fnArgs'[1]
CallPeriod == fnArgs'[2]
CallStat == fnArgs'[3]
CallStart == fnArgs'[4][1]
CallEnd == fnArgs'[4][2]

GetMetricStep == lastOp' = "get_metric"

\* the period is one of the ladder and the stat one of the stat set
CallValid == CallPeriod \in PeriodNames /\ CallStat \in STATS

\* the rollup rows of the period of the call with its path, in [start, end]
Matching ==
    {row \in agg[CallPeriod] :
        row.path = CallPath /\ CallStart.v <= row.timestamp /\ row.timestamp <= CallEnd.v}

(* C24: get_metric(path, period, stat, (start, end)), start and end epoch  *)
(* seconds, returns exactly the (timestamp, stat) pairs of the rollup rows *)
(* of the period with that path and start <= timestamp <= end, both ends   *)
(* inclusive, in ascending order of timestamp; the empty list and no error *)
(* when no row matches; incoming and the rollup tables are not changed.    *)
C24_InclusiveAscendingReadOnly ==
    [][(GetMetricStep /\ CallValid /\ ~CallStart.datetime /\ ~CallEnd.datetime) =>
          /\ raised' = ""
          /\ fnRes' # None
          /\ Len(fnRes'[1]) = Cardinality(Matching)
          /\ \A row \in Matching : \E i \in DOMAIN fnRes'[1] :
                fnRes'[1][i] = <<row.timestamp, column(row, CallStat)>>
          /\ \A i \in 1..(Len(fnRes'[1]) - 1) : fnRes'[1][i][1] < fnRes'[1][i + 1][1]
          /\ incoming' = incoming
          /\ agg' = agg]_vars

\* the rows of `one` at 0, 10 and 20 came back for (0, 20), in this order
C24_Witness ==
    /\ lastOp = "get_metric"
    /\ fnArgs = <<"one", "tensecond", "max", <<Num(0), Num(20)>> >>
    /\ fnRes = Some(<< <<0, 1>>, <<10, 5>>, <<20, 2>> >>)
    /\ raised = ""

(* C25: get_metric with a period that is not in PERIODS or a stat that is  *)
(* not in STATS raises to the caller before any query is run: no           *)
(* connection is opened or used, nothing is returned, and incoming and the *)
(* rollup tables are what they were.                                       *)
C25_InvalidArgumentRaisesFirst ==
    [][(GetMetricStep /\ ~CallValid) =>
          /\ raised' = "AssertionError"
          /\ fnRes' = None
          /\ _db' = _db
          /\ conns' = conns
          /\ incoming' = incoming
          /\ agg' = agg]_vars

\* an unknown stat was asked of a closed store that holds rollup rows: no connection was opened
C25_Witness ==
    /\ lastOp = "get_metric"
    /\ fnArgs[2] = "tensecond"
    /\ fnArgs[3] = "count"
    /\ raised = "AssertionError"
    /\ agg["tensecond"] # {}
    /\ conns = 1
    /\ _db = None

(* C26: in every reachable state of TablesTSDB, in the rollup table of     *)
(* every period P, the timestamp of each row is an integer multiple of P   *)
(* and no two rows have the same (path, timestamp).                        *)
C26_AlignedAndUnique ==
    \A name \in PeriodNames :
        /\ \A row \in agg[name] : row.timestamp % SecondsOf(name) = 0
        /\ \A r1, r2 \in agg[name] :
              (r1.path = r2.path /\ r1.timestamp = r2.timestamp) => r1 = r2

\* the ten second table holds rows of one path at two timestamps and rows of two paths at one
C26_Witness ==
    /\ \E r1, r2 \in agg["tensecond"] : r1.path = r2.path /\ r1.timestamp # r2.timestamp
    /\ \E r1, r2 \in agg["tensecond"] : r1.path # r2.path /\ r1.timestamp = r2.timestamp
    /\ agg["oneday"] # {}

\* the incoming rows of a batch inserted when the next identity was `first`
RowsOf(tuples, first) ==
    { [ id        |-> first + i - 1,
        path      |-> tuples[i][1],
        timestamp |-> tuples[i][2],
        value     |-> tuples[i][3] ] : i \in DOMAIN tuples }

(* C27: insert is all or none.  After it returns, every sample of the      *)
(* batch is a row of incoming and no other row was added; when it fails,   *)
(* on a sample that violates a not null constraint part-way through the    *)
(* batch, incoming is what it was before the call and the error is raised  *)
(* to the caller.                                                          *)
C27_InsertAllOrNone ==
    [][/\ lastOp' = "insert" =>
             /\ raised' = ""
             /\ \E tuples \in StoreBatches :
                   /\ \A i \in DOMAIN tuples : tuples[i][2] # nan /\ tuples[i][3] # nan
                   /\ incoming' = incoming \cup RowsOf(tuples, nextId)
                   /\ Cardinality(incoming') = Cardinality(incoming) + Len(tuples)
       /\ lastOp' = "insert_failed" =>
             /\ raised' = "IntegrityError"
             /\ incoming' = incoming
             /\ agg' = agg]_vars

\* the batch with a NaN timestamp in its second sample failed after a batch was inserted
C27_Witness ==
    /\ lastOp = "insert_failed"
    /\ raised = "IntegrityError"
    /\ Cardinality(incoming) = 3
    /\ inserts = 2

(* C28: close() is idempotent.  Called again after a close, or on a store  *)
(* that was never opened, it raises nothing and leaves _db None and the    *)
(* data as it was; the next insert or sync opens a new connection and runs *)
(* as on an open store.                                                    *)
C28_CloseIdempotentThenReopens ==
    [][/\ lastOp' = "close" =>
             /\ raised' = ""
             /\ _db' = None
             /\ incoming' = incoming
             /\ agg' = agg
       /\ (_db = None /\ lastOp' \in {"insert", "sync"}) =>
             /\ raised' = ""
             /\ conns' = conns + 1
             /\ _db' = Some(conns')
             /\ lastOp' = "insert" => Cardinality(incoming') > Cardinality(incoming)]_vars

\* close, close again, then an insert: on the third connection, the rows are in incoming
C28_Witness ==
    /\ lastOp = "insert"
    /\ inserts = 1
    /\ clock = 0
    /\ fnArgs = None
    /\ conns = 3
    /\ _db = Some(3)
    /\ incoming # {}

----------------------------------------------------------------------------
\* the invocation p is in TSDB.sync
Syncing(p) == cli[p].pc = "syncing"

(* C29: of the `sync --lock-file L` invocations that overlap, at most one  *)
(* is in TSDB.sync at any time; the invocation that does not get the lock  *)
(* exits with a non-zero code, does not call TSDB.sync, and changes        *)
(* neither the store nor the lock.                                         *)
C29_LockedSyncsExclude ==
    [][/\ \A p, q \in Procs :
             (p # q /\ cli'[p].lock_file /\ cli'[q].lock_file) => ~(Syncing(p)' /\ Syncing(q)')
       /\ \A p \in Procs :
             (cli[p].pc = "new" /\ cli'[p].lock_file /\ lock # None) =>
                 /\ cli'[p].pc = "exited"
                 /\ cli'[p].exit = Some(1)
                 /\ ~cli'[p].called
                 /\ incoming' = incoming
                 /\ agg' = agg
                 /\ lock' = lock
       /\ \A p \in Procs : (cli'[p].exit # None /\ cli'[p].exit # Some(0)) => ~cli'[p].called]_vars

\* while invocation 1 is in sync with the lock, invocation 2 has exited with code 1
C29_Witness ==
    /\ Syncing(1)
    /\ cli[1].lock_file
    /\ lock = Some(1)
    /\ cli[2] = [pc |-> "exited", lock_file |-> TRUE, called |-> FALSE, exit |-> Some(1)]
    /\ incoming # {}

----------------------------------------------------------------------------
(* C30: TwoDatabasesTSDB behaves as TablesTSDB: given the same inserts and *)
(* the same syncs at the same clock values, after every step its incoming  *)
(* table (in the attached database) holds the rows of the incoming of the  *)
(* TablesTSDB, and each of its rollup tables the rows of the same table.   *)
C30_TwoDatabasesSameTables ==
    /\ DOMAIN two.aux = {"incoming"}
    /\ two.aux["incoming"] = incoming
    /\ DOMAIN two.main = PeriodNames
    /\ \A name \in PeriodNames : two.main[name] = agg[name]

\* after inserts and a sync that wrote rollup rows and pruned incoming, then another insert
C30_Witness ==
    /\ two.main["oneday"] # {}
    /\ Cardinality(two.main["tensecond"]) >= 2
    /\ two.aux["incoming"] # {}
    /\ Cardinality(two.aux["incoming"]) < nextId - 1
    /\ lastOp = "insert"
    /\ inserts = MaxInserts

----------------------------------------------------------------------------
\* a step that enters a scope, a step that leaves one, and the scope that is left
EnterStep == Len(tm'.stack) > Len(tm.stack)
ExitStep == Len(tm'.stack) < Len(tm.stack)
Innermost == tm.stack[Len(tm.stack)]

\* history: the scopes that enclose scope `sid`, after the step
RECURSIVE Enclosing(_)
Enclosing(sid) ==
    IF tm'.parent[sid] = 0 THEN {} ELSE {tm'.parent[sid]} \cup Enclosing(tm'.parent[sid])

(* C38: a scope that exits, by return or by exception, appends its timings *)
(* (one for each clock) to the list the outermost scope yielded, after the *)
(* timings of the scopes it encloses; when the outermost scope exits the   *)
(* accumulator is reset, so that the next outermost scope starts from an   *)
(* empty list, and the prefix stack of a Timer is what it was before the   *)
(* scope was entered.                                                      *)
C38_ScopesAppendInnerFirstAndReset ==
    [][/\ ExitStep =>
             /\ Len(tm'.yielded) = Len(tm.yielded) + Len(tm.callbacks)
             /\ SubSeq(tm'.yielded, 1, Len(tm.yielded)) = tm.yielded
             /\ \A i \in (Len(tm.yielded) + 1)..Len(tm'.yielded) :
                   /\ tm'.yielded[i].sid = Innermost.sid
                   /\ tm'.yielded[i].start = Innermost.start_utc
             /\ \A i, j \in DOMAIN tm'.yielded :
                   i < j => tm'.yielded[i].sid \notin Enclosing(tm'.yielded[j].sid)
             /\ tm'.prefixes = Innermost.base
             /\ IF Len(tm.stack) = 1
                THEN tm'._timings = None
                ELSE tm'._timings = Some(tm'.yielded)
       /\ (EnterStep /\ tm.stack = << >>) =>
             /\ tm'._timings = Some(<< >>)
             /\ tm'.yielded = << >>]_vars

\* Timer(prefix 'root'): with ('prefix', 'all'): with 'inner': return; raise
C38_Witness ==
    /\ tm.kind = "Timer"
    /\ tm.stack = << >>
    /\ tm.exc
    /\ tm._timings = None
    /\ tm.prefixes = <<"root">>
    /\ Len(tm.yielded) = 2
    /\ tm.yielded[1].name = "root.prefix.inner.time"
    /\ tm.yielded[2].name = "root.prefix.all.time"

----------------------------------------------------------------------------
(* C31: with self_metric_prefix, one sync inserts its timings into incoming *)
(* once, after the passes and the prune: one row for every clock of every   *)
(* scope of the sync, with consecutive new ids and the prefixed name, none  *)
(* of them counted by a rollup row of that sync, none of them removed by    *)
(* its delete; the insert opens no scope of its own, so the scopes of the   *)
(* step are those of _sync and the accumulator is left empty.               *)

SyncSelfStep == lastOp' = "sync" /\ clock' # clock

\* the scopes of one _sync over npaths paths: sync.all, the delete, and a pass for each period
SyncScopes(npaths) == 2 + Len(PERIODS) * (2 + npaths)

NewRows == {r \in incoming' : r.id >= nextId}

C31_SelfTimingsInsertedOnceAfterSync ==
    [][ SyncSelfStep =>
          LET timings == tm'.yielded
          IN  /\ tm'.sid - tm.sid = SyncScopes(Cardinality(paths))
              /\ Len(timings) = SyncScopes(Cardinality(paths)) * Len(tm.callbacks)
              /\ nextId' = nextId + Len(timings)
              /\ NewRows =
                   { [ id        |-> nextId + i - 1,
                       path      |-> "smalltsdb.sync." \o timings[i].name,
                       timestamp |-> timings[i].start,
                       value     |-> timings[i].duration ] : i \in DOMAIN timings }
              /\ \A i \in DOMAIN timings :
                    SubSeq(timings[i].name, 1, 5) = "sync."
              /\ \A name \in PeriodNames : \A row \in agg'[name] :
                    /\ row.ids \cap {r.id : r \in NewRows} = {}
                    /\ row.path \in paths
              /\ incoming' \ NewRows = {r \in incoming : r.timestamp >= delete_end(clock')}
              /\ tm'._timings = None
              /\ tm'.stack = << >>
              /\ inserts' = inserts
    ]_vars

\* a sync of a store with two samples, one of them pruned, whose timings of three
\* clocks are in incoming with a timestamp the delete of the same sync would remove
C31_Witness ==
    /\ lastOp = "sync"
    /\ tm.callbacks = <<"user", "system", "time">>
    /\ \E r \in incoming :
          /\ r.path = "smalltsdb.sync.sync.delete_incoming_query.time"
          /\ r.timestamp < delete_end(clock)
    /\ \E r \in incoming : r.path = "one"
    /\ \E r \in startIncoming : r \notin incoming

----------------------------------------------------------------------------
\* C32 (as stated): when every sample is inserted before a sync has run with
\* now >= its timestamp + tail, then for every period P, once a sync has run
\* with now >= floor(timestamp/P)*P + P + tail, the sample is counted in the
\* rollup row of its bucket.
C32_Original ==
    \A r \in incoming : \A name \in PeriodNames :
        LET B == Bucket(r.timestamp, SecondsOf(name))
        IN  clock >= B + SecondsOf(name) + _tail =>
              \E row \in agg[name] :
                  /\ row.path = r.path
                  /\ row.timestamp = B
                  /\ r.id \in row.ids

----------------------------------------------------------------------------
\* C33: for every row of incoming that the delete of a sync at now removes,
\* and every period P, the end of the row's bucket, floor(timestamp/P)*P + P,
\* is at most the final_end the same sync computed for P.
C33_PrunedRowsHaveFinalBuckets ==
    [][ SyncStep =>
          \A r \in incoming \ incoming' : \A name \in PeriodNames :
              Bucket(r.timestamp, SecondsOf(name)) + SecondsOf(name)
                  <= final(name, r.path, clock')[2]
      ]_vars

\* the sync at 172830 has removed the sample at 86369 and kept the one at 86410,
\* whose bucket of a day ends at 172800, after that sync's final_end of 86400
C33_Witness ==
    /\ lastOp = "sync"
    /\ clock = 172830
    /\ \E r \in startIncoming \ incoming : r.timestamp = 86369
    /\ \E r \in incoming :
          /\ r.timestamp = 86410
          /\ Bucket(r.timestamp, 86400) + 86400 > intervals(86400, _tail, clock, None)[1][2]

----------------------------------------------------------------------------
\* C34: over any inserts and syncs, a rollup row is never deleted (its key
\* stays in its table), for each period and path the largest rollup
\* timestamp never decreases, and every row a sync writes for the pair has a
\* timestamp greater than the last_final the sync read for it.
Keys(rows) == {<<row.path, row.timestamp>> : row \in rows}

last_final_after(name, path) ==
    LET ts == {row.timestamp : row \in {x \in agg'[name] : x.path = path}}
    IN  IF ts = {} THEN None ELSE Some(MaxOf(ts))

C34_RollupsOnlyGrowPastLastFinal ==
    [][ \A name \in PeriodNames :
          /\ Keys(agg[name]) \subseteq Keys(agg'[name])
          /\ \A path \in {row.path : row \in agg[name]} :
                last_final_after(name, path)[1] >= last_final(name, path)[1]
          /\ \A row \in Written(name) :
                /\ SyncStep
                /\ last_final(name, row.path) # None =>
                      row.timestamp > last_final(name, row.path)[1]
      ]_vars

\* a second sync has added a row of tensecond for a path that had one, after it
C34_Witness ==
    /\ lastOp = "sync"
    /\ \E row \in agg["tensecond"] \ startAgg["tensecond"] :
          \E old \in startAgg["tensecond"] :
              old.path = row.path /\ old.timestamp < row.timestamp

----------------------------------------------------------------------------
\* the srcs of the payload samples in the batches of a queue
QueueSrcs(q) == UNION { Srcs(q[i].tuples) : i \in DOMAIN q }

\* the srcs of the payload samples that a successful insert has written
InsertedSrcs == UNION { Srcs(calls[c].arg) : c \in {x \in DOMAIN calls : calls[x].ok} }

\* src s1 was enqueued before src s2: an earlier payload, or an earlier line of the same
EnqueuedBefore(s1, s2) == s1[1] < s2[1] \/ (s1[1] = s2[1] /\ s1[2] < s2[2])

\* the consumer takes TIME or DONE with samples in the buffer: process() calls insert
InsertAttempt == ConsumerStep /\ Head(queue) \in {TIME, DONE} /\ buffer # << >>

(* C35: the consumer takes the items of the queue in the order they were   *)
(* put.  The insert attempted at a tick or at shutdown holds the samples   *)
(* of exactly the batches that were put ahead of that item and were not    *)
(* written by a successful insert before, in the order they were enqueued; *)
(* no sample of a batch behind the item is in it.                          *)
C35_InsertHoldsBatchesAheadOfTickInOrder ==
    [][ /\ ConsumerStep =>
            /\ queue' = Tail(queue)
            /\ Head(queue).kind = "batch" =>
                  buffer' = buffer \o Head(queue).tuples /\ calls' = calls
        /\ InsertAttempt =>
            LET arg == calls'[Len(calls')].arg
            IN  /\ Len(calls') = Len(calls) + 1
                /\ Srcs(arg) = (KnownSrcs \ QueueSrcs(queue')) \ InsertedSrcs
                /\ Srcs(arg) \cap QueueSrcs(queue') = {}
                /\ \A i \in FromPayloads(arg), j \in FromPayloads(arg) :
                      i < j => EnqueuedBefore(arg[i][4], arg[j][4])
                /\ Head(queue) = DONE => Srcs(arg) \subseteq beforeDone
    ]_vars

\* the insert of the first tick failed; the insert at shutdown succeeded with the payload
\* of the first and, after it, the one enqueued between the tick and the shutdown item
C35_Witness ==
    /\ Len(calls) = 2
    /\ ~calls[1].ok
    /\ calls[2].ok
    /\ pc = "exited"
    /\ ticks = 1
    /\ {src[1] : src \in Srcs(calls[1].arg)} = {1}
    /\ {src[1] : src \in Srcs(calls[2].arg)} = {1, 2}
    /\ self_metric_prefix # None

----------------------------------------------------------------------------
\* C36: for a period P > 0, a tail T >= 0, any now and a last_final that is a
\* multiple of P or None, intervals returns a final_end and a partial_end
\* that are multiples of P, with partial_start = final_end,
\* final_end <= now - T < final_end + P and partial_start <= now < partial_end.
C36_IntervalsAdjacentAlignedAroundNow ==
    ivArgs # None =>
        LET P             == ivArgs[1]
            T             == ivArgs[2]
            now           == ivArgs[3]
            final_end     == ivRes[1][2]
            partial_start == ivRes[2][1]
            partial_end   == ivRes[2][2]
        IN  /\ P > 0 /\ T >= 0
            /\ final_end % P = 0
            /\ partial_end % P = 0
            /\ partial_start = final_end
            /\ final_end <= now - T
            /\ now - T < final_end + P
            /\ partial_start <= now
            /\ now < partial_end

\* a call with tail 0 at a multiple of the period: final_end = now - T = partial_start = now
C36_Witness ==
    /\ ivArgs # None
    /\ ivArgs[1] = 60
    /\ ivArgs[2] = 0
    /\ ivArgs[3] = 120
    /\ ivRes[1][2] = 120
    /\ ivRes[2] = <<120, 180>>

----------------------------------------------------------------------------
\* the step is the one sync of a store whose samples were all inserted before it, none
\* before the epoch, and whose now is tail plus one period of `name` past the newest
OneSyncPastNewest(name) ==
    /\ SyncStep
    /\ incoming # {}
    /\ Cardinality(incoming) = nextId - 1
    /\ \A n \in PeriodNames : agg[n] = {}
    /\ \A r \in incoming : r.timestamp >= 0
    /\ clock' >= MaxOf({r.timestamp : r \in incoming}) + _tail + SecondsOf(name)

(* C37: for samples with non-negative timestamps, all inserted before one  *)
(* sync whose now is at least tail plus one period past the newest, the    *)
(* table of that period holds in TablesTSDB and in TwoDatabasesTSDB        *)
(* exactly the rows (path, bucket, n) that the view of the ViewTSDB shows  *)
(* for the same samples; the sync of the ViewTSDB changes nothing.         *)
C37_TablesMatchViewsAfterOneSync ==
    [][ SyncStep =>
          /\ view' = view
          /\ \A name \in PeriodNames :
                OneSyncPastNewest(name) =>
                    /\ Tuples(view') = Tuples(incoming)
                    /\ PTN(agg'[name]) = PTN(view_table(view', SecondsOf(name)))
                    /\ PTN(two'.main[name]) = PTN(view_table(view', SecondsOf(name)))
      ]_vars

\* the samples of test_integration and a sample at 0 after the sync at 82: tensecond
\* has the rows of the test and of the sample at 0, and so has the view
C37_Witness ==
    /\ lastOp = "sync"
    /\ clock = 82
    /\ startAgg["tensecond"] = {}
    /\ PTN(agg["tensecond"]) = {<<"one", 0, 2>>, <<"one", 10, 1>>, <<"two", 0, 2>>}
    /\ PTN(view_table(view, 10)) = PTN(agg["tensecond"])
    /\ PTN(two.main["tensecond"]) = PTN(agg["tensecond"])
    /\ PTN(agg["oneminute"]) # PTN(view_table(view, 60))
====
